---- MODULE Spec2Model ----
(***************************************************************************)
(* Goal engine and budget projection of the finance application.           *)
(*                                                                         *)
(* Money is modelled by integers.  Target amounts are multiples of 4, so   *)
(* that the products targetAmount * 0.25 / 0.5 / 0.75 of the milestone     *)
(* thresholds are integers (they are exact in IEEE doubles as well).       *)
(* Time is an integer number of days (daysSinceLastSave is a difference).   *)
(* An optional value (a request field that may be absent, a Date field     *)
(* that may be null) is a sequence of length 0 or 1.                       *)
(*                                                                         *)
(* Fields of the Goal schema that no operation reads (description, tags,   *)
(* isPublic, createdAt, updatedAt, a contribution's date and note) are not *)
(* part of the modelled document.                                          *)
(***************************************************************************)
EXTENDS Integers, Sequences, FiniteSets, TLC

\* ---------------------------------------------------------------- bounds
MaxContribs == 2
MaxNow == 1
MaxDueDay == 31
MaxSpend == 22
MaxMonths == 3
MaxGoals == 2
MaxDocs == 3

\* ------------------------------------------------------- optional values
None == << >>
Some(v) == << v >>
Has(o) == o # << >>
Val(o) == o[1]
Opt(S) == {None} \cup {Some(v) : v \in S}

\* --------------------------------------------------------------- domains
Users == {"u1", "u2"}
Owners == {"u1"}
GoalIds == {"g1"}
Statuses == {"active", "completed", "paused", "cancelled"}
Frequencies == {"daily", "weekly", "monthly"}
Sources == {"manual", "auto-save", "bonus", "other"}
Categories == {"emergency-fund", "gadget", "travel", "education",
               "investment", "entertainment", "health", "other"}
Priorities == {"low", "medium", "high", "urgent"}

Targets == {4, 8}

VARIABLES goals, now, res, reqs, input, output

vars == << goals, now, res, reqs, input, output >>

\* ------------------------------------------------ Goal schema and hooks

\* Milestones at the half and at the whole of the target only.
HalfMilestones(targetAmount) ==
    << [percentage |-> 50, amount |-> (targetAmount * 50) \div 100,
        isAchieved |-> FALSE, achievedDate |-> None],
       [percentage |-> 100, amount |-> targetAmount,
        isAchieved |-> FALSE, achievedDate |-> None] >>

\* The four default milestones built by POST / and by PUT /:id.
DefaultMilestones(targetAmount) ==
    << [percentage |-> 25, amount |-> (targetAmount * 25) \div 100,
        isAchieved |-> FALSE, achievedDate |-> None],
       [percentage |-> 50, amount |-> (targetAmount * 50) \div 100,
        isAchieved |-> FALSE, achievedDate |-> None],
       [percentage |-> 75, amount |-> (targetAmount * 75) \div 100,
        isAchieved |-> FALSE, achievedDate |-> None],
       [percentage |-> 100, amount |-> targetAmount,
        isAchieved |-> FALSE, achievedDate |-> None] >>

\* Schema defaults of the autoSave sub-record.
DefaultAutoSave ==
    [enabled |-> FALSE, amount |-> 0, frequency |-> "monthly",
     lastAutoSave |-> None]

\* Schema validators that run before a document is written.
Validates(doc) ==
    /\ doc.targetAmount >= 0
    /\ doc.currentAmount >= 0
    /\ doc.category \in Categories
    /\ doc.priority \in Priorities
    /\ doc.status \in Statuses
    /\ doc.autoSave.amount >= 0
    /\ doc.autoSave.frequency \in Frequencies
    /\ \A i \in DOMAIN doc.contributions :
          /\ doc.contributions[i].amount >= 0
          /\ doc.contributions[i].source \in Sources

\* A pre-save hook that completes a goal only above its target.
PreSaveAboveTarget(doc, t) ==
    LET d1 == IF doc.currentAmount > doc.targetAmount /\ doc.status = "active"
              THEN [doc EXCEPT !.status = "completed", !.completedAt = Some(t)]
              ELSE doc
    IN  [d1 EXCEPT !.milestones =
            [i \in DOMAIN d1.milestones |->
                IF ~d1.milestones[i].isAchieved
                   /\ d1.currentAmount >= d1.milestones[i].amount
                THEN [d1.milestones[i] EXCEPT !.isAchieved = TRUE,
                                              !.achievedDate = Some(t)]
                ELSE d1.milestones[i]]]

\* goalSchema.pre('save'): completion, then the milestones.
PreSave(doc, t) ==
    LET d1 == IF doc.currentAmount >= doc.targetAmount /\ doc.status = "active"
              THEN [doc EXCEPT !.status = "completed", !.completedAt = Some(t)]
              ELSE doc
    IN  [d1 EXCEPT !.milestones =
            [i \in DOMAIN d1.milestones |->
                IF ~d1.milestones[i].isAchieved
                   /\ d1.currentAmount >= d1.milestones[i].amount
                THEN [d1.milestones[i] EXCEPT !.isAchieved = TRUE,
                                              !.achievedDate = Some(t)]
                ELSE d1.milestones[i]]]

\* addContribution with "=" written for "+=".
AddContributionAssigns(doc, amount, source) ==
    [doc EXCEPT !.contributions = Append(@, [amount |-> amount, source |-> source]),
                !.currentAmount = amount]

\* goalSchema.methods.addContribution, up to its call of save().
AddContribution(doc, amount, source) ==
    [doc EXCEPT !.contributions = Append(@, [amount |-> amount, source |-> source]),
                !.currentAmount = @ + amount]

\* A lookup by id alone.
FoundAnyOwner(id, u) == id \in DOMAIN goals

\* Goal.findOne({_id, user}): the document, if the caller owns it.
Found(id, u) == id \in DOMAIN goals /\ goals[id].user = u

\* ------------------------------------------------------- request inputs
Titles == {"Laptop"}
NewTitles == {"Laptop"}
CategoryInputs == {"other"}
PriorityInputs == {"medium"}
StatusInputs == Statuses \cup {"archived"}
TargetInputs == Targets \cup {0, -1}
DateInputs == {0, MaxNow + 1}
AmountInputs == {-1, 0, 1, 3}
AutoAmount == CHOOSE a \in AmountInputs : \A b \in AmountInputs : a >= b
SourceInputs == {"manual"}

\* The autoSave object of a request body: each sub-field may be absent.
AutoSaveInputs ==
    { [enabled |-> Some(TRUE), amount |-> Some(AutoAmount), frequency |-> Some("daily")],
      [enabled |-> Some(TRUE), amount |-> None, frequency |-> None],
      [enabled |-> Some(FALSE), amount |-> None, frequency |-> None],
      [enabled |-> None, amount |-> Some(0 - 1), frequency |-> None] }

\* goal.autoSave = { ...goal.autoSave, ...autoSave }, and the schema defaults
\* filled in when POST / passes a partial autoSave object.
MergeAutoSave(base, p) ==
    [enabled |-> IF Has(p.enabled) THEN Val(p.enabled) ELSE base.enabled,
     amount |-> IF Has(p.amount) THEN Val(p.amount) ELSE base.amount,
     frequency |-> IF Has(p.frequency) THEN Val(p.frequency) ELSE base.frequency,
     lastAutoSave |-> base.lastAutoSave]

CreateBodies ==
    [title : Titles \cup {""}, targetAmount : Opt(TargetInputs),
     targetDate : Opt(DateInputs), category : Opt(CategoryInputs),
     priority : {None}, autoSave : {None, Some(CHOOSE p \in AutoSaveInputs :
                                            Has(p.amount) /\ Has(p.enabled))}]

EmptyBody ==
    [title |-> "", category |-> None, priority |-> None, status |-> None,
     autoSave |-> None, targetAmount |-> None, targetDate |-> None]

\* Every way of setting one field of a PUT body.
OneField(b) ==
    {[b EXCEPT !.title = t] : t \in NewTitles}
    \cup {[b EXCEPT !.category = Some(c)] : c \in CategoryInputs}
    \cup {[b EXCEPT !.priority = Some(p)] : p \in PriorityInputs}
    \cup {[b EXCEPT !.status = Some(s)] : s \in StatusInputs}
    \cup {[b EXCEPT !.autoSave = Some(a)] : a \in AutoSaveInputs}
    \cup {[b EXCEPT !.targetAmount = Some(t)] : t \in TargetInputs}
    \cup {[b EXCEPT !.targetDate = Some(d)] : d \in DateInputs}

\* PUT bodies: no field, one field, or a status together with a target amount.
UpdateBodies ==
    {EmptyBody} \cup OneField(EmptyBody)
    \cup {[EmptyBody EXCEPT !.status = Some(s), !.targetAmount = Some(t)] :
             s \in Statuses, t \in Targets}

Response(op, code, message) == [code |-> code, message |-> message]

\* ------------------------------------------------------------- handlers

\* A test that lets zero through.
Negative(v) == v < 0

\* targetAmount <= 0, amount <= 0
NotPositive(v) == v <= 0

\* POST /api/goals
Create(u, id, body) ==
    /\ id \notin DOMAIN goals
    /\ UNCHANGED << now, reqs, input, output >>
    /\ IF body.title = "" \/ ~Has(body.targetAmount) \/ Val(body.targetAmount) = 0
          \/ ~Has(body.targetDate)
       THEN /\ res' = Response("create", 400,
                        "Title, target amount, and target date are required.")
            /\ UNCHANGED goals
       ELSE IF NotPositive(Val(body.targetAmount))
       THEN /\ res' = Response("create", 400, "Target amount must be greater than 0.")
            /\ UNCHANGED goals
       ELSE IF Val(body.targetDate) <= now
       THEN /\ res' = Response("create", 400, "Target date must be in the future.")
            /\ UNCHANGED goals
       ELSE LET doc == [user |-> u,
                        title |-> body.title,
                        targetAmount |-> Val(body.targetAmount),
                        currentAmount |-> 0,
                        category |-> IF Has(body.category) THEN Val(body.category)
                                     ELSE "other",
                        priority |-> IF Has(body.priority) THEN Val(body.priority)
                                     ELSE "medium",
                        targetDate |-> Val(body.targetDate),
                        status |-> "active",
                        autoSave |-> IF Has(body.autoSave)
                                     THEN MergeAutoSave(DefaultAutoSave, Val(body.autoSave))
                                     ELSE DefaultAutoSave,
                        milestones |-> DefaultMilestones(Val(body.targetAmount)),
                        contributions |-> << >>,
                        completedAt |-> None]
            IN  IF Validates(doc)
                THEN /\ goals' = (id :> PreSave(doc, now)) @@ goals
                     /\ res' = Response("create", 201, "Goal created successfully!")
                ELSE /\ res' = Response("create", 500, "Server error while creating goal.")
                     /\ UNCHANGED goals

\* Field assignments that also clamp the saved amount to a new target.
EditedClamping(doc, body) ==
    LET d1 == [doc EXCEPT
                 !.title = IF body.title # "" THEN body.title ELSE @,
                 !.category = IF Has(body.category) THEN Val(body.category) ELSE @,
                 !.priority = IF Has(body.priority) THEN Val(body.priority) ELSE @,
                 !.status = IF Has(body.status) THEN Val(body.status) ELSE @,
                 !.autoSave = IF Has(body.autoSave)
                              THEN MergeAutoSave(@, Val(body.autoSave)) ELSE @]
        d2 == IF Has(body.targetAmount)
              THEN [d1 EXCEPT !.targetAmount = Val(body.targetAmount),
                              !.currentAmount = IF @ > Val(body.targetAmount)
                                                THEN Val(body.targetAmount) ELSE @,
                              !.milestones = DefaultMilestones(Val(body.targetAmount))]
              ELSE d1
    IN  IF Has(body.targetDate) THEN [d2 EXCEPT !.targetDate = Val(body.targetDate)]
        ELSE d2

\* Field assignments that keep the old milestones under a new target.
EditedKeepingMilestones(doc, body) ==
    LET d1 == [doc EXCEPT
                 !.title = IF body.title # "" THEN body.title ELSE @,
                 !.category = IF Has(body.category) THEN Val(body.category) ELSE @,
                 !.priority = IF Has(body.priority) THEN Val(body.priority) ELSE @,
                 !.status = IF Has(body.status) THEN Val(body.status) ELSE @,
                 !.autoSave = IF Has(body.autoSave)
                              THEN MergeAutoSave(@, Val(body.autoSave)) ELSE @]
        d2 == IF Has(body.targetAmount)
              THEN [d1 EXCEPT !.targetAmount = Val(body.targetAmount)]
              ELSE d1
    IN  IF Has(body.targetDate) THEN [d2 EXCEPT !.targetDate = Val(body.targetDate)]
        ELSE d2

\* The in-memory document of PUT /:id after its field assignments.
Edited(doc, body) ==
    LET d1 == [doc EXCEPT
                 !.title = IF body.title # "" THEN body.title ELSE @,
                 !.category = IF Has(body.category) THEN Val(body.category) ELSE @,
                 !.priority = IF Has(body.priority) THEN Val(body.priority) ELSE @,
                 !.status = IF Has(body.status) THEN Val(body.status) ELSE @,
                 !.autoSave = IF Has(body.autoSave)
                              THEN MergeAutoSave(@, Val(body.autoSave)) ELSE @]
        d2 == IF Has(body.targetAmount)
              THEN [d1 EXCEPT !.targetAmount = Val(body.targetAmount),
                              !.milestones = DefaultMilestones(Val(body.targetAmount))]
              ELSE d1
    IN  IF Has(body.targetDate) THEN [d2 EXCEPT !.targetDate = Val(body.targetDate)]
        ELSE d2

\* PUT /api/goals/:id
Update(u, id, body) ==
    /\ UNCHANGED << now, reqs, input, output >>
    /\ IF ~Found(id, u)
       THEN /\ res' = Response("update", 404, "Goal not found.")
            /\ UNCHANGED goals
       ELSE IF Has(body.targetAmount) /\ NotPositive(Val(body.targetAmount))
       THEN /\ res' = Response("update", 400, "Target amount must be greater than 0.")
            /\ UNCHANGED goals
       ELSE IF Has(body.targetDate) /\ Val(body.targetDate) <= now
       THEN /\ res' = Response("update", 400, "Target date must be in the future.")
            /\ UNCHANGED goals
       ELSE IF ~Validates(Edited(goals[id], body))
       THEN /\ res' = Response("update", 500, "Server error while updating goal.")
            /\ UNCHANGED goals
       ELSE /\ goals' = [goals EXCEPT ![id] = PreSave(Edited(goals[id], body), now)]
            /\ res' = Response("update", 200, "Goal updated successfully!")

\* DELETE /api/goals/:id
Delete(u, id) ==
    /\ UNCHANGED << now, reqs, input, output >>
    /\ IF ~Found(id, u)
       THEN /\ res' = Response("delete", 404, "Goal not found.")
            /\ UNCHANGED goals
       ELSE /\ goals' = [g \in DOMAIN goals \ {id} |-> goals[g]]
            /\ res' = Response("delete", 200, "Goal deleted successfully!")

\* A status guard that lets paused goals through.
IsActiveOrPaused(doc) == doc.status \in {"active", "paused"}

\* The status guard of the contribute and auto-save handlers.
IsActive(doc) == doc.status = "active"

\* POST /api/goals/:id/contribute
Contribute(u, id, amount, source) ==
    /\ UNCHANGED << now, reqs, input, output >>
    /\ IF ~Has(amount) \/ Val(amount) = 0 \/ NotPositive(Val(amount))
       THEN /\ res' = Response("contribute", 400, "Valid contribution amount is required.")
            /\ UNCHANGED goals
       ELSE IF ~Found(id, u)
       THEN /\ res' = Response("contribute", 404, "Goal not found.")
            /\ UNCHANGED goals
       ELSE IF ~IsActive(goals[id])
       THEN /\ res' = Response("contribute", 400, "Cannot contribute to inactive goal.")
            /\ UNCHANGED goals
       ELSE LET doc == AddContribution(goals[id], Val(amount),
                           IF Has(source) THEN Val(source) ELSE "manual")
            IN  IF Validates(doc)
                THEN /\ Len(goals[id].contributions) < MaxContribs
                     /\ goals' = [goals EXCEPT ![id] = PreSave(doc, now)]
                     /\ res' = Response("contribute", 200, "Contribution added successfully!")
                ELSE /\ res' = Response("contribute", 500,
                                 "Server error while adding contribution.")
                     /\ UNCHANGED goals

\* A due check with ">" written for ">=".
IsDueStrict(autoSave, t) ==
    IF ~Has(autoSave.lastAutoSave) THEN TRUE
    ELSE LET elapsed == t - Val(autoSave.lastAutoSave)
         IN  CASE autoSave.frequency = "daily" -> elapsed > 1
               [] autoSave.frequency = "weekly" -> elapsed > 7
               [] autoSave.frequency = "monthly" -> elapsed > 30
               [] OTHER -> FALSE

\* The due check of POST /:id/auto-save.
IsDue(autoSave, t) ==
    IF ~Has(autoSave.lastAutoSave) THEN TRUE
    ELSE LET elapsed == t - Val(autoSave.lastAutoSave)
         IN  CASE autoSave.frequency = "daily" -> elapsed >= 1
               [] autoSave.frequency = "weekly" -> elapsed >= 7
               [] autoSave.frequency = "monthly" -> elapsed >= 30
               [] OTHER -> FALSE

\* An enabled guard that forgets the amount.
AutoSaveSwitchedOn(autoSave) == autoSave.enabled

\* The enabled guard of POST /:id/auto-save.
AutoSaveEnabled(autoSave) == autoSave.enabled /\ autoSave.amount > 0

\* An auto-save run that forgets the stamp.
NoStamp(doc, t) == doc

\* goal.autoSave.lastAutoSave = now
Stamp(doc, t) == [doc EXCEPT !.autoSave.lastAutoSave = Some(t)]

\* POST /api/goals/:id/auto-save
AutoSave(u, id) ==
    /\ UNCHANGED << now, reqs, input, output >>
    /\ IF ~Found(id, u)
       THEN /\ res' = Response("auto-save", 404, "Goal not found.")
            /\ UNCHANGED goals
       ELSE IF ~AutoSaveEnabled(goals[id].autoSave)
       THEN /\ res' = Response("auto-save", 400, "Auto-save is not enabled for this goal.")
            /\ UNCHANGED goals
       ELSE IF ~IsActive(goals[id])
       THEN /\ res' = Response("auto-save", 400, "Cannot auto-save to inactive goal.")
            /\ UNCHANGED goals
       ELSE IF ~IsDue(goals[id].autoSave, now)
       THEN /\ res' = Response("auto-save", 400, "Auto-save is not due yet.")
            /\ UNCHANGED goals
       ELSE LET d1 == PreSave(AddContribution(goals[id], goals[id].autoSave.amount,
                                              "auto-save"), now)
                d2 == PreSave(Stamp(d1, now), now)
            IN  /\ Len(goals[id].contributions) < MaxContribs
                /\ goals' = [goals EXCEPT ![id] = d2]
                /\ res' = Response("auto-save", 200, "Auto-saved!")

\* The clock advances by one tick.
Tick ==
    /\ now < MaxNow
    /\ now' = now + 1
    /\ UNCHANGED << goals, res, reqs, input, output >>

NoInput == [fn |-> "none"]

Init ==
    /\ goals = << >>
    /\ now = 0
    /\ res = Response("none", 0, "")
    /\ reqs = << >>
    /\ input = NoInput
    /\ output = NoInput

Next ==
    \/ \E u \in Owners, id \in GoalIds, body \in CreateBodies : Create(u, id, body)
    \/ \E u \in Users, id \in GoalIds, body \in UpdateBodies : Update(u, id, body)
    \/ \E u \in Users, id \in GoalIds : Delete(u, id)
    \/ \E u \in Users, id \in GoalIds, amount \in Opt(AmountInputs),
          source \in Opt(SourceInputs) : Contribute(u, id, amount, source)
    \/ \E u \in Users, id \in GoalIds : AutoSave(u, id)
    \/ Tick

Spec == Init /\ [][Next]_vars

\* ------------------------------------------- handlers, step by step
\* Two requests in flight.  A handler loads the goal (findOne), works on its
\* in-memory copy and writes it back with save(); other handlers may run
\* between the two awaits.

Slots == {"h1", "h2"}

Idle ==
    [pc |-> "idle", op |-> "none", id |-> "none", amount |-> 0, source |-> "none",
     t |-> 0, loaded |-> None, saved |-> None, doc |-> None, code |-> 0]

\* What save() sends for a loaded document: $set of the paths that differ
\* from the last loaded or saved state, $push of the appended contributions.
Delta(stored, clean, doc) ==
    [stored EXCEPT
        !.title = IF doc.title # clean.title THEN doc.title ELSE @,
        !.targetAmount = IF doc.targetAmount # clean.targetAmount
                         THEN doc.targetAmount ELSE @,
        !.currentAmount = IF doc.currentAmount # clean.currentAmount
                          THEN doc.currentAmount ELSE @,
        !.category = IF doc.category # clean.category THEN doc.category ELSE @,
        !.priority = IF doc.priority # clean.priority THEN doc.priority ELSE @,
        !.targetDate = IF doc.targetDate # clean.targetDate THEN doc.targetDate ELSE @,
        !.status = IF doc.status # clean.status THEN doc.status ELSE @,
        !.completedAt = IF doc.completedAt # clean.completedAt
                        THEN doc.completedAt ELSE @,
        !.autoSave = IF doc.autoSave # clean.autoSave
                     THEN [enabled |-> IF doc.autoSave.enabled # clean.autoSave.enabled
                                       THEN doc.autoSave.enabled ELSE @.enabled,
                           amount |-> IF doc.autoSave.amount # clean.autoSave.amount
                                      THEN doc.autoSave.amount ELSE @.amount,
                           frequency |->
                               IF doc.autoSave.frequency # clean.autoSave.frequency
                               THEN doc.autoSave.frequency ELSE @.frequency,
                           lastAutoSave |->
                               IF doc.autoSave.lastAutoSave # clean.autoSave.lastAutoSave
                               THEN doc.autoSave.lastAutoSave ELSE @.lastAutoSave]
                     ELSE @,
        !.contributions = @ \o SubSeq(doc.contributions, Len(clean.contributions) + 1,
                                      Len(doc.contributions)),
        !.milestones = [i \in DOMAIN @ |->
                           IF doc.milestones[i] # clean.milestones[i]
                           THEN doc.milestones[i] ELSE @[i]]]

\* save() fails with a VersionError when it sets a field of a milestone (a
\* positional write into an array, sent with the loaded version) and the
\* stored version has moved.  Every $push increments the version, so it has
\* moved exactly when the stored contributions list has grown since the
\* in-memory copy was loaded or last saved.
VersionConflict(stored, clean, doc) ==
    /\ \E i \in DOMAIN doc.milestones : doc.milestones[i] # clean.milestones[i]
    /\ Len(stored.contributions) # Len(clean.contributions)

Free(h) == reqs[h].pc \in {"idle", "done"}

Done(h, code) == [reqs[h] EXCEPT !.pc = "done", !.code = code]

\* POST /:id/contribute up to findOne and the status guard.
ContributeLoad(h, u, id, amount, source) ==
    /\ Free(h)
    /\ UNCHANGED << goals, now, res, input, output >>
    /\ LET r == [Idle EXCEPT !.op = "contribute", !.id = id,
                             !.amount = IF Has(amount) THEN Val(amount) ELSE 0,
                             !.source = IF Has(source) THEN Val(source) ELSE "manual",
                             !.t = now]
       IN  IF ~Has(amount) \/ Val(amount) = 0 \/ NotPositive(Val(amount))
           THEN reqs' = [reqs EXCEPT ![h] = [r EXCEPT !.pc = "done", !.code = 400]]
           ELSE IF ~Found(id, u)
           THEN reqs' = [reqs EXCEPT ![h] = [r EXCEPT !.pc = "done", !.code = 404]]
           ELSE IF ~IsActive(goals[id])
           THEN reqs' = [reqs EXCEPT ![h] = [r EXCEPT !.pc = "done", !.code = 400]]
           ELSE /\ Len(goals[id].contributions) < MaxContribs
                /\ reqs' = [reqs EXCEPT ![h] =
                              [r EXCEPT !.pc = "loaded", !.loaded = Some(goals[id]),
                                        !.saved = Some(goals[id]),
                                        !.doc = Some(goals[id])]]

\* goal.addContribution(...) of POST /:id/contribute: push, add, save().
ContributeSave(h) ==
    /\ reqs[h].pc = "loaded"
    /\ reqs[h].op = "contribute"
    /\ UNCHANGED << now, res, input, output >>
    /\ LET id == reqs[h].id
           doc == AddContribution(Val(reqs[h].doc), reqs[h].amount, reqs[h].source)
           hooked == PreSave(doc, now)
       IN  IF ~Validates(doc) \/ id \notin DOMAIN goals
              \/ VersionConflict(goals[id], Val(reqs[h].saved), hooked)
           THEN /\ reqs' = [reqs EXCEPT ![h] = Done(h, 500)]
                /\ UNCHANGED goals
           ELSE /\ goals' = [goals EXCEPT ![id] = Delta(@, Val(reqs[h].saved), hooked)]
                /\ reqs' = [reqs EXCEPT ![h] =
                              [Done(h, 200) EXCEPT !.saved = Some(hooked),
                                                   !.doc = Some(hooked)]]

\* POST /:id/auto-save up to findOne, the guards and the due check.
AutoSaveLoad(h, u, id) ==
    /\ Free(h)
    /\ UNCHANGED << goals, now, res, input, output >>
    /\ LET r == [Idle EXCEPT !.op = "auto-save", !.id = id, !.source = "auto-save",
                             !.t = now]
       IN  IF ~Found(id, u)
           THEN reqs' = [reqs EXCEPT ![h] = [r EXCEPT !.pc = "done", !.code = 404]]
           ELSE IF \/ ~AutoSaveEnabled(goals[id].autoSave)
                   \/ ~IsActive(goals[id])
                   \/ ~IsDue(goals[id].autoSave, now)
           THEN reqs' = [reqs EXCEPT ![h] = [r EXCEPT !.pc = "done", !.code = 400]]
           ELSE /\ Len(goals[id].contributions) < MaxContribs
                /\ reqs' = [reqs EXCEPT ![h] =
                              [r EXCEPT !.pc = "loaded",
                                        !.amount = goals[id].autoSave.amount,
                                        !.loaded = Some(goals[id]),
                                        !.saved = Some(goals[id]),
                                        !.doc = Some(goals[id])]]

\* await goal.addContribution(goal.autoSave.amount, ..., 'auto-save')
AutoSaveContribute(h) ==
    /\ reqs[h].pc = "loaded"
    /\ reqs[h].op = "auto-save"
    /\ UNCHANGED << now, res, input, output >>
    /\ LET id == reqs[h].id
           doc == AddContribution(Val(reqs[h].doc), Val(reqs[h].doc).autoSave.amount,
                                  "auto-save")
           hooked == PreSave(doc, now)
       IN  IF ~Validates(doc) \/ id \notin DOMAIN goals
              \/ VersionConflict(goals[id], Val(reqs[h].saved), hooked)
           THEN /\ reqs' = [reqs EXCEPT ![h] = Done(h, 500)]
                /\ UNCHANGED goals
           ELSE /\ goals' = [goals EXCEPT ![id] = Delta(@, Val(reqs[h].saved), hooked)]
                /\ reqs' = [reqs EXCEPT ![h] =
                              [reqs[h] EXCEPT !.pc = "contributed",
                                              !.saved = Some(hooked),
                                              !.doc = Some(hooked)]]

\* goal.autoSave.lastAutoSave = now; await goal.save()
AutoSaveStamp(h) ==
    /\ reqs[h].pc = "contributed"
    /\ UNCHANGED << now, res, input, output >>
    /\ LET id == reqs[h].id
           doc == Stamp(Val(reqs[h].doc), reqs[h].t)
           hooked == PreSave(doc, now)
       IN  IF ~Validates(doc) \/ id \notin DOMAIN goals
              \/ VersionConflict(goals[id], Val(reqs[h].saved), hooked)
           THEN /\ reqs' = [reqs EXCEPT ![h] = Done(h, 500)]
                /\ UNCHANGED goals
           ELSE /\ goals' = [goals EXCEPT ![id] = Delta(@, Val(reqs[h].saved), hooked)]
                /\ reqs' = [reqs EXCEPT ![h] =
                              [Done(h, 200) EXCEPT !.saved = Some(hooked),
                                                   !.doc = Some(hooked)]]

\* A save() that the record store rejects (connection lost, write error):
\* nothing is written and the handler's catch answers 500.
SaveFails(h) ==
    /\ reqs[h].pc \in {"loaded", "contributed"}
    /\ reqs' = [reqs EXCEPT ![h] = Done(h, 500)]
    /\ UNCHANGED << goals, now, res, input, output >>

\* The clock advances while requests are in flight.
TickConc ==
    /\ now < MaxNow
    /\ now' = now + 1
    /\ UNCHANGED << goals, res, reqs, input, output >>

\* A goal as POST / stores it, with auto-save switched on.
NewGoal(u, targetAmount) ==
    [user |-> u, title |-> "Laptop", targetAmount |-> targetAmount,
     currentAmount |-> 0, category |-> "other", priority |-> "medium",
     targetDate |-> MaxNow + 1, status |-> "active",
     autoSave |-> [DefaultAutoSave EXCEPT !.enabled = TRUE, !.amount = AutoAmount,
                                          !.frequency = "daily"],
     milestones |-> DefaultMilestones(targetAmount),
     contributions |-> << >>, completedAt |-> None]

\* The amounts a stored goal's auto-save may hold.
AutoSaveAmounts == {a \in AmountInputs : a > 0}

InitConc ==
    /\ \E targetAmount \in Targets, amount \in AutoSaveAmounts :
          goals = [id \in GoalIds |->
                      [NewGoal("u1", targetAmount) EXCEPT !.autoSave.amount = amount]]
    /\ now = 0
    /\ res = Response("none", 0, "")
    /\ reqs = [h \in Slots |-> Idle]
    /\ input = NoInput
    /\ output = NoInput

NextConc ==
    \/ \E h \in Slots, u \in Users, id \in GoalIds, amount \in Opt(AmountInputs),
          source \in Opt(SourceInputs) : ContributeLoad(h, u, id, amount, source)
    \/ \E h \in Slots : ContributeSave(h)
    \/ \E h \in Slots, u \in Users, id \in GoalIds : AutoSaveLoad(h, u, id)
    \/ \E h \in Slots : AutoSaveContribute(h)
    \/ \E h \in Slots : AutoSaveStamp(h)
    \/ \E h \in Slots : SaveFails(h)
    \/ TickConc

SpecConc == InitConc /\ [][NextConc]_vars

\* ----------------------------------------------- the due check, alone

DueInputs ==
    [fn : {"isDue"},
     autoSave : [enabled : {TRUE}, amount : {AutoAmount}, frequency : Frequencies,
                 lastAutoSave : Opt(0..MaxDueDay)],
     now : 0..MaxDueDay]

InitDue ==
    /\ goals = << >>
    /\ now = 0
    /\ res = Response("none", 0, "")
    /\ reqs = << >>
    /\ input \in DueInputs
    /\ output = NoInput

\* Lines 452-472 of the auto-save handler on a loaded goal.
CheckDue ==
    /\ input.fn = "isDue"
    /\ output = NoInput
    /\ output' = [fn |-> "isDue", isDue |-> IsDue(input.autoSave, input.now)]
    /\ UNCHANGED << goals, now, res, reqs, input >>

NextDue == CheckDue

SpecDue == InitDue /\ [][NextDue]_vars

\* --------------------------------------------------- budget projection

Budgets == {0, 20}
Months == 0..11

\* Days of month m (0 = January) in the calendar of Date.
DaysIn(m, leap) ==
    IF m = 1 THEN (IF leap THEN 29 ELSE 28)
    ELSE IF m \in {3, 5, 8, 10} THEN 30 ELSE 31

\* endOfMonth.getDate(): new Date(), setMonth(getMonth() + 1), setDate(0).
\* setMonth keeps the day of the month, and a day the next month does not
\* have carries the date into the month after it; setDate(0) then steps to
\* the last day of the month before.
EndOfMonthDate(month, day, leap) ==
    LET next == (month + 1) % 12
        landed == IF day > DaysIn(next, leap) THEN (month + 2) % 12 ELSE next
    IN  DaysIn((landed + 11) % 12, leap)

\* A quotient of the handler, kept exact as numerator and denominator.
Ratio(n, d) == [num |-> n, den |-> d]
Gt(r, k) == r.num > k * r.den

\* A status rule that tests the warning threshold first.
BudgetStatusWarningFirst(budgetUtilization, projectedMonthlyTotal, monthlyBudget) ==
    IF Gt(budgetUtilization, 80) THEN "warning"
    ELSE IF Gt(budgetUtilization, 100) THEN "over-budget"
    ELSE IF Gt(projectedMonthlyTotal, monthlyBudget) THEN "projected-overspend"
    ELSE "on-track"

\* let budgetStatus = 'on-track'; if ... else if ... else if ...
BudgetStatus(budgetUtilization, projectedMonthlyTotal, monthlyBudget) ==
    IF Gt(budgetUtilization, 100) THEN "over-budget"
    ELSE IF Gt(budgetUtilization, 80) THEN "warning"
    ELSE IF Gt(projectedMonthlyTotal, monthlyBudget) THEN "projected-overspend"
    ELSE "on-track"

\* Metrics that divide by daysRemaining whatever it is.
BudgetAnalysisUnguarded(currentTotal, monthlyBudget, currentDay, daysInMonth) ==
    LET budgetUtilization == IF monthlyBudget > 0
                             THEN Ratio(currentTotal * 100, monthlyBudget)
                             ELSE Ratio(0, 1)
        remainingBudget == monthlyBudget - currentTotal
        daysRemaining == daysInMonth - currentDay
        dailyAverage == IF currentDay > 0 THEN Ratio(currentTotal, currentDay)
                        ELSE Ratio(0, 1)
        projectedMonthlyTotal == Ratio(dailyAverage.num * daysInMonth, dailyAverage.den)
        projectedOverspend == Ratio(projectedMonthlyTotal.num
                                       - monthlyBudget * projectedMonthlyTotal.den,
                                    projectedMonthlyTotal.den)
        recommendedDailySpending == Ratio(remainingBudget, daysRemaining)
    IN  [fn |-> "budget",
         monthlyBudget |-> monthlyBudget,
         currentSpending |-> currentTotal,
         budgetUtilization |-> budgetUtilization,
         remainingBudget |-> remainingBudget,
         budgetStatus |-> BudgetStatus(budgetUtilization, projectedMonthlyTotal,
                                       monthlyBudget),
         dailyAverage |-> dailyAverage,
         recommendedDailySpending |-> recommendedDailySpending,
         daysRemaining |-> daysRemaining,
         daysInMonth |-> daysInMonth,
         currentDay |-> currentDay,
         projectedMonthlyTotal |-> projectedMonthlyTotal,
         projectedOverspend |-> projectedOverspend]

\* The metrics of GET /budget-analysis.
BudgetAnalysis(currentTotal, monthlyBudget, currentDay, daysInMonth) ==
    LET budgetUtilization == IF monthlyBudget > 0
                             THEN Ratio(currentTotal * 100, monthlyBudget)
                             ELSE Ratio(0, 1)
        remainingBudget == monthlyBudget - currentTotal
        daysRemaining == daysInMonth - currentDay
        dailyAverage == IF currentDay > 0 THEN Ratio(currentTotal, currentDay)
                        ELSE Ratio(0, 1)
        projectedMonthlyTotal == Ratio(dailyAverage.num * daysInMonth, dailyAverage.den)
        projectedOverspend == Ratio(projectedMonthlyTotal.num
                                       - monthlyBudget * projectedMonthlyTotal.den,
                                    projectedMonthlyTotal.den)
        recommendedDailySpending == IF daysRemaining > 0
                                    THEN Ratio(remainingBudget, daysRemaining)
                                    ELSE Ratio(0, 1)
    IN  [fn |-> "budget",
         monthlyBudget |-> monthlyBudget,
         currentSpending |-> currentTotal,
         budgetUtilization |-> budgetUtilization,
         remainingBudget |-> remainingBudget,
         budgetStatus |-> BudgetStatus(budgetUtilization, projectedMonthlyTotal,
                                       monthlyBudget),
         dailyAverage |-> dailyAverage,
         recommendedDailySpending |-> recommendedDailySpending,
         daysRemaining |-> daysRemaining,
         daysInMonth |-> daysInMonth,
         currentDay |-> currentDay,
         projectedMonthlyTotal |-> projectedMonthlyTotal,
         projectedOverspend |-> projectedOverspend]

BudgetInputs ==
    {i \in [fn : {"budget"}, currentTotal : 0..MaxSpend, monthlyBudget : Budgets,
            month : Months, day : 1..31, leap : BOOLEAN] :
        i.day <= DaysIn(i.month, i.leap)}

InitBudget ==
    /\ goals = << >>
    /\ now = 0
    /\ res = Response("none", 0, "")
    /\ reqs = << >>
    /\ input \in BudgetInputs
    /\ output = NoInput

\* GET /api/analytics/budget-analysis on the input's date and totals.
GetBudgetAnalysis ==
    /\ input.fn = "budget"
    /\ output = NoInput
    /\ output' = BudgetAnalysis(input.currentTotal, input.monthlyBudget, input.day,
                                EndOfMonthDate(input.month, input.day, input.leap))
    /\ UNCHANGED << goals, now, res, reqs, input >>

NextBudget == GetBudgetAnalysis

SpecBudget == InitBudget /\ [][NextBudget]_vars

\* ------------------------------------------------------ financial health

Ge(r, k) == r.num >= k * r.den
Le(r, k) == r.num <= k * r.den

Incomes == {0, 10}
ExpenseTotals == {2, 5, 7}
HealthBudgets == {0, 3, 6, 10}

\* The goals of the user as the scorer reads them.
HealthGoals ==
    { [status |-> "active", category |-> "other", currentAmount |-> 0, targetAmount |-> 10],
      [status |-> "active", category |-> "other", currentAmount |-> 3, targetAmount |-> 10],
      [status |-> "active", category |-> "emergency-fund", currentAmount |-> 4,
       targetAmount |-> 10],
      [status |-> "active", category |-> "emergency-fund", currentAmount |-> 5,
       targetAmount |-> 10],
      [status |-> "completed", category |-> "other", currentAmount |-> 10,
       targetAmount |-> 10],
      [status |-> "paused", category |-> "emergency-fund", currentAmount |-> 6,
       targetAmount |-> 10] }

RECURSIVE SumSeq(_)
SumSeq(xs) == IF xs = << >> THEN 0 ELSE Head(xs) + SumSeq(Tail(xs))

RECURSIVE SumSquares(_, _, _)
\* The sum over xs of (n * x - total)^2.
SumSquares(xs, n, total) ==
    IF xs = << >> THEN 0
    ELSE (n * Head(xs) - total) * (n * Head(xs) - total) + SumSquares(Tail(xs), n, total)

\* Goal.getUserGoalStats: count, totalTarget and totalCurrent by status.
GetUserGoalStats(gs) ==
    [st \in Statuses |->
        LET of == SelectSeq(gs, LAMBDA g : g.status = st)
        IN  [count |-> Len(of),
             totalTarget |-> SumSeq([i \in 1..Len(of) |-> of[i].targetAmount]),
             totalCurrent |-> SumSeq([i \in 1..Len(of) |-> of[i].currentAmount])]]

Factor(label, points, status) == [factor |-> label, points |-> points, status |-> status]
\* One branch of a factor: what it adds to healthScore and what it pushes.
Scored(add, pushed) == [add |-> add, pushed |-> pushed]

\* Factor 1: Savings Rate (30 points).
SavingsFactor(savingsRate) ==
    IF Ge(savingsRate, 20)
    THEN Scored(30, << Factor("Excellent savings rate", 30, "excellent") >>)
    ELSE IF Ge(savingsRate, 10)
    THEN Scored(20, << Factor("Good savings rate", 20, "good") >>)
    ELSE IF Ge(savingsRate, 0)
    THEN Scored(10, << Factor("Positive savings", 10, "fair") >>)
    ELSE Scored(0, << Factor("Negative savings", 0, "poor") >>)

\* Factor 2: Budget Adherence (25 points).
BudgetFactor(budgetUtilization) ==
    IF Le(budgetUtilization, 80)
    THEN Scored(25, << Factor("Excellent budget control", 25, "excellent") >>)
    ELSE IF Le(budgetUtilization, 100)
    THEN Scored(15, << Factor("Good budget control", 15, "good") >>)
    ELSE IF Le(budgetUtilization, 120)
    THEN Scored(5, << Factor("Slight budget overspend", 5, "fair") >>)
    ELSE Scored(0, << Factor("Significant budget overspend", 0, "poor") >>)

\* A goal factor that gives 20 points for progress alone.
GoalFactorProgressOnly(activeGoals, completedGoals, totalGoalProgress) ==
    IF Ge(totalGoalProgress, 50)
    THEN Scored(20, << Factor("Excellent goal achievement", 20, "excellent") >>)
    ELSE IF Ge(totalGoalProgress, 25)
    THEN Scored(15, << Factor("Good goal progress", 15, "good") >>)
    ELSE IF activeGoals > 0
    THEN Scored(10, << Factor("Goals set but limited progress", 10, "fair") >>)
    ELSE Scored(0, << Factor("No active financial goals", 0, "poor") >>)

\* Factor 3: Goal Progress (20 points).
GoalFactor(activeGoals, completedGoals, totalGoalProgress) ==
    IF completedGoals > 0 /\ Ge(totalGoalProgress, 50)
    THEN Scored(20, << Factor("Excellent goal achievement", 20, "excellent") >>)
    ELSE IF Ge(totalGoalProgress, 25)
    THEN Scored(15, << Factor("Good goal progress", 15, "good") >>)
    ELSE IF activeGoals > 0
    THEN Scored(10, << Factor("Goals set but limited progress", 10, "fair") >>)
    ELSE Scored(0, << Factor("No active financial goals", 0, "poor") >>)

\* coefficientOfVariation <= k, for monthly totals with a positive mean:
\* stdDev / avg * 100 <= k, squared and cleared of its denominators, with
\* avg = total / n and variance = SumSquares / n^3.
CoVAtMost(monthlyExpenses, k) ==
    LET n == Len(monthlyExpenses)
        total == SumSeq(monthlyExpenses)
    IN  IF total > 0
        THEN 10000 * SumSquares(monthlyExpenses, n, total) <= k * k * n * total * total
        ELSE 0 <= k

\* A consistency factor computed from one month of data on.
ConsistencyFactorFromOneMonth(monthlyExpenses) ==
    IF Len(monthlyExpenses) >= 1
    THEN IF CoVAtMost(monthlyExpenses, 20)
         THEN Scored(15, << Factor("Consistent spending patterns", 15, "excellent") >>)
         ELSE IF CoVAtMost(monthlyExpenses, 40)
         THEN Scored(10, << Factor("Moderately consistent spending", 10, "good") >>)
         ELSE Scored(5, << Factor("Inconsistent spending patterns", 5, "fair") >>)
    ELSE Scored(0, << >>)

\* A consistency factor that scores without reporting.
ConsistencyFactorSilent(monthlyExpenses) ==
    IF Len(monthlyExpenses) >= 2
    THEN IF CoVAtMost(monthlyExpenses, 20)
         THEN Scored(15, << >>)
         ELSE IF CoVAtMost(monthlyExpenses, 40)
         THEN Scored(10, << >>)
         ELSE Scored(5, << >>)
    ELSE Scored(0, << >>)

\* Factor 4: Expense Consistency (15 points), only with two months of data.
ConsistencyFactor(monthlyExpenses) ==
    IF Len(monthlyExpenses) >= 2
    THEN IF CoVAtMost(monthlyExpenses, 20)
         THEN Scored(15, << Factor("Consistent spending patterns", 15, "excellent") >>)
         ELSE IF CoVAtMost(monthlyExpenses, 40)
         THEN Scored(10, << Factor("Moderately consistent spending", 10, "good") >>)
         ELSE Scored(5, << Factor("Inconsistent spending patterns", 5, "fair") >>)
    ELSE Scored(0, << >>)

\* Factor 5: Emergency Fund (10 points); savingsGoals.find takes the first
\* active goal of category emergency-fund.
EmergencyFactor(savingsGoals) ==
    LET funds == SelectSeq(savingsGoals, LAMBDA g : g.category = "emergency-fund")
    IN  IF funds # << >> /\ 2 * funds[1].currentAmount >= funds[1].targetAmount
        THEN Scored(10, << Factor("Emergency fund in progress", 10, "good") >>)
        ELSE IF funds # << >>
        THEN Scored(5, << Factor("Emergency fund started", 5, "fair") >>)
        ELSE Scored(0, << Factor("No emergency fund", 0, "poor") >>)

\* A status rule with the good threshold at 70.
HealthStatusGoodFrom70(healthScore) ==
    IF healthScore >= 80 THEN "excellent"
    ELSE IF healthScore >= 70 THEN "good"
    ELSE IF healthScore >= 40 THEN "fair"
    ELSE "poor"

\* let healthStatus = 'poor'; if ... else if ... else if ...
HealthStatus(healthScore) ==
    IF healthScore >= 80 THEN "excellent"
    ELSE IF healthScore >= 60 THEN "good"
    ELSE IF healthScore >= 40 THEN "fair"
    ELSE "poor"

\* user.getBudgetUtilization().
GetBudgetUtilization(currentExpenses, monthlyBudget) ==
    IF monthlyBudget = 0 THEN Ratio(0, 1) ELSE Ratio(currentExpenses * 100, monthlyBudget)

\* The financialHealth object of GET /financial-health. months holds, from
\* the current month backwards, the expense total of each calendar month of
\* the three-month window that has records.
\* The recommendations, in the order the handler pushes them.
Recommendations(savingsRate, budgetUtilization, activeGoals, savingsGoals) ==
    LET funds == SelectSeq(savingsGoals, LAMBDA g : g.category = "emergency-fund")
    IN  (IF ~Ge(savingsRate, 10)
         THEN << "Try to save at least 10% of your income each month" >> ELSE << >>)
        \o (IF Gt(budgetUtilization, 100)
            THEN << "Review and reduce expenses to stay within budget" >> ELSE << >>)
        \o (IF activeGoals = 0
            THEN << "Set specific financial goals to improve motivation" >> ELSE << >>)
        \o (IF funds = << >>
            THEN << "Start building an emergency fund for unexpected expenses" >> ELSE << >>)

FinancialHealth(income, months, monthlyBudget, gs) ==
    LET monthlyExpenses == [i \in 1..Len(SelectSeq(months, Has)) |->
                               Val(SelectSeq(months, Has)[i])]
        expenses == SumSeq(monthlyExpenses)
        currentExpenses == IF Has(months[1]) THEN Val(months[1]) ELSE 0
        netSavings == income - expenses
        savingsRate == IF income > 0 THEN Ratio(netSavings * 100, income) ELSE Ratio(0, 1)
        goalStats == GetUserGoalStats(gs)
        savingsGoals == SelectSeq(gs, LAMBDA g : g.status = "active")
        budgetUtilization == GetBudgetUtilization(currentExpenses, monthlyBudget)
        activeGoals == goalStats["active"].count
        completedGoals == goalStats["completed"].count
        totalGoalProgress == IF activeGoals > 0
                             THEN Ratio(goalStats["active"].totalCurrent * 100,
                                        goalStats["active"].totalTarget)
                             ELSE Ratio(0, 1)
        f1 == SavingsFactor(savingsRate)
        f2 == BudgetFactor(budgetUtilization)
        f3 == GoalFactor(activeGoals, completedGoals, totalGoalProgress)
        f4 == ConsistencyFactor(monthlyExpenses)
        f5 == EmergencyFactor(savingsGoals)
        healthScore == f1.add + f2.add + f3.add + f4.add + f5.add
    IN  [fn |-> "health",
         healthScore |-> healthScore,
         healthStatus |-> HealthStatus(healthScore),
         scoreFactors |-> f1.pushed \o f2.pushed \o f3.pushed \o f4.pushed \o f5.pushed,
         savingsRate |-> savingsRate,
         budgetUtilization |-> budgetUtilization,
         activeGoals |-> activeGoals,
         completedGoals |-> completedGoals,
         totalGoalProgress |-> totalGoalProgress,
         recommendations |-> Recommendations(savingsRate, budgetUtilization,
                                             activeGoals, savingsGoals)]

SeqsUpTo(S, n) == UNION {[1..k -> S] : k \in 0..n}

HealthInputs ==
    [fn : {"health"}, income : Incomes, months : [1..MaxMonths -> Opt(ExpenseTotals)],
     monthlyBudget : HealthBudgets, goals : SeqsUpTo(HealthGoals, MaxGoals)]

InitHealth ==
    /\ goals = << >>
    /\ now = 0
    /\ res = Response("none", 0, "")
    /\ reqs = << >>
    /\ input \in HealthInputs
    /\ output = NoInput

\* GET /api/analytics/financial-health on the input's ledger and goals.
GetFinancialHealth ==
    /\ input.fn = "health"
    /\ output = NoInput
    /\ output' = FinancialHealth(input.income, input.months, input.monthlyBudget,
                                 input.goals)
    /\ UNCHANGED << goals, now, res, reqs, input >>

NextHealth == GetFinancialHealth

SpecHealth == InitHealth /\ [][NextHealth]_vars

\* ------------------------------------- the score around a contribution

ScoreInputs ==
    [fn : {"score"}, income : Incomes, months : [1..MaxMonths -> Opt(ExpenseTotals)],
     monthlyBudget : HealthBudgets, goals : SeqsUpTo(HealthGoals, MaxGoals)]

\* The amounts of the contributions: a part of what is missing, and all of it.
ScoreAmounts == {1, 5, 6, 7, 10}

InitScore ==
    /\ goals = << >>
    /\ now = 0
    /\ res = Response("none", 0, "")
    /\ reqs = << >>
    /\ input \in ScoreInputs
    /\ output = NoInput

\* GET /api/analytics/financial-health before the contribution.
ScoreBefore ==
    /\ input.fn = "score"
    /\ output = NoInput
    /\ output' = [fn |-> "score", phase |-> "before", completes |-> FALSE,
                  before |-> FinancialHealth(input.income, input.months,
                                             input.monthlyBudget, input.goals).healthScore,
                  after |-> 0]
    /\ UNCHANGED << goals, now, res, reqs, input >>

\* addContribution and the pre-save hook, on the fields the scorer reads.
Contributed(g, amount) ==
    IF g.currentAmount + amount >= g.targetAmount /\ g.status = "active"
    THEN [g EXCEPT !.currentAmount = @ + amount, !.status = "completed"]
    ELSE [g EXCEPT !.currentAmount = @ + amount]

\* POST /api/goals/:id/contribute, accepted: to the user's i-th goal.
ScoreContribute(i, amount) ==
    /\ output.fn = "score"
    /\ output.phase = "before"
    /\ i \in DOMAIN input.goals
    /\ IsActive(input.goals[i])
    /\ ~NotPositive(amount)
    /\ input' = [input EXCEPT !.goals[i] = Contributed(@, amount)]
    /\ output' = [output EXCEPT !.phase = "contributed",
                                !.completes = Contributed(input.goals[i], amount).status
                                                 = "completed"]
    /\ UNCHANGED << goals, now, res, reqs >>

\* GET /api/analytics/financial-health after the contribution.
ScoreAfter ==
    /\ output.fn = "score"
    /\ output.phase = "contributed"
    /\ output' = [output EXCEPT !.phase = "after",
                     !.after = FinancialHealth(input.income, input.months,
                                               input.monthlyBudget, input.goals).healthScore]
    /\ UNCHANGED << goals, now, res, reqs, input >>

NextScore ==
    \/ ScoreBefore
    \/ \E i \in 1..MaxGoals, amount \in ScoreAmounts : ScoreContribute(i, amount)
    \/ ScoreAfter

SpecScore == InitScore /\ [][NextScore]_vars

\* ------------------------------------------------- one request at a time

\* goalSchema.virtual('progressPercentage')
ProgressPercentage(doc) ==
    IF doc.targetAmount = 0 THEN Ratio(0, 1)
    ELSE IF doc.currentAmount >= doc.targetAmount THEN Ratio(100, 1)
    ELSE Ratio(doc.currentAmount * 100, doc.targetAmount)

\* goalSchema.virtual('daysRemaining'), in whole days.
DaysRemaining(doc, t) == doc.targetDate - t

\* goalSchema.virtual('requiredDailySavings')
RequiredDailySavings(doc, t) ==
    LET remaining == doc.targetAmount - doc.currentAmount
        daysLeft == DaysRemaining(doc, t)
    IN  IF daysLeft <= 0 \/ remaining <= 0 THEN Ratio(0, 1)
        ELSE Ratio(remaining, daysLeft)

\* GET /api/goals/:id
Get(u, id) ==
    /\ UNCHANGED << goals, now, reqs, input >>
    /\ IF ~Found(id, u)
       THEN /\ res' = Response("get", 404, "Goal not found.")
            /\ UNCHANGED output
       ELSE /\ res' = Response("get", 200, "")
            /\ output' = [fn |-> "goal",
                          goal |-> goals[id],
                          progressPercentage |-> ProgressPercentage(goals[id]),
                          daysRemaining |-> DaysRemaining(goals[id], now),
                          requiredDailySavings |-> RequiredDailySavings(goals[id], now)]

\* Goals of u1 as earlier requests leave them in the store: new, with one
\* contribution, completed, paused and cancelled.
StoredGoals ==
    LET fresh == [t \in Targets |-> PreSave(NewGoal("u1", t), 0)]
        started == [t \in Targets |->
                       PreSave(AddContribution(fresh[t], 1, "manual"), 0)]
        reached == [t \in Targets |->
                       PreSave(AddContribution(started[t], t - 1, "manual"), 0)]
    IN  UNION {{fresh[t], started[t], reached[t],
                PreSave(Edited(started[t], [EmptyBody EXCEPT !.status = Some("paused")]), 0),
                PreSave(Edited(fresh[t], [EmptyBody EXCEPT !.status = Some("cancelled")]), 0)}
               : t \in Targets}

InitRequest ==
    /\ goals \in {<< >>} \cup {[id \in GoalIds |-> d] : d \in StoredGoals}
    /\ now \in 0..MaxNow
    /\ res = Response("none", 0, "")
    /\ reqs = << >>
    /\ input = NoInput
    /\ output = NoInput

\* No request has been answered yet.
Pending == res.code = 0

RequestCreate ==
    Pending /\ \E u \in Users, id \in GoalIds, body \in CreateBodies : Create(u, id, body)
RequestGet ==
    Pending /\ \E u \in Users, id \in GoalIds : Get(u, id)
RequestUpdate ==
    Pending /\ \E u \in Users, id \in GoalIds, body \in UpdateBodies : Update(u, id, body)
RequestDelete ==
    Pending /\ \E u \in Users, id \in GoalIds : Delete(u, id)
RequestContribute ==
    Pending /\ \E u \in Users, id \in GoalIds, amount \in Opt(AmountInputs),
                  source \in Opt(SourceInputs) : Contribute(u, id, amount, source)
RequestAutoSave ==
    Pending /\ \E u \in Users, id \in GoalIds : AutoSave(u, id)

NextRequest ==
    \/ RequestCreate
    \/ RequestGet
    \/ RequestUpdate
    \/ RequestDelete
    \/ RequestContribute
    \/ RequestAutoSave

SpecRequest == InitRequest /\ [][NextRequest]_vars

\* ------------------------------------------- category / source breakdown

LedgerAmounts == {30, 50, 100}
Windows == {[startDate |-> 1, endDate |-> 2]}

\* Expense documents: the caller's inside the window (its last day
\* included), the caller's outside it, and another user's.
ExpenseDocs ==
    {[user |-> "u1", category |-> c, date |-> 1, amount |-> a] :
        c \in {"food", "transport", "rent"}, a \in LedgerAmounts}
    \cup {[user |-> "u1", category |-> "food", date |-> 2, amount |-> 50],
          [user |-> "u1", category |-> "food", date |-> 0, amount |-> 50],
          [user |-> "u1", category |-> "transport", date |-> 3, amount |-> 30],
          [user |-> "u2", category |-> "food", date |-> 1, amount |-> 100]}

\* Income documents, likewise.
IncomeDocs ==
    {[user |-> "u1", source |-> c, date |-> 1, amount |-> a] :
        c \in {"allowance", "stipend", "gift"}, a \in LedgerAmounts}
    \cup {[user |-> "u1", source |-> "allowance", date |-> 2, amount |-> 50],
          [user |-> "u1", source |-> "allowance", date |-> 0, amount |-> 50],
          [user |-> "u1", source |-> "stipend", date |-> 3, amount |-> 30],
          [user |-> "u2", source |-> "allowance", date |-> 1, amount |-> 100]}

\* $match: { user, date: { $gte: startDate, $lte: endDate } }
MatchWindow(docs, userId, startDate, endDate) ==
    SelectSeq(docs, LAMBDA r : r.user = userId /\ r.date >= startDate /\ r.date <= endDate)

RECURSIVE GroupSum(_, _, _)
\* $group with totalAmount: { $sum: '$amount' }, count: { $sum: 1 }: the
\* accumulators by _id after every document of docs, whose _id values are
\* ids, has been added to acc.
GroupSum(docs, ids, acc) ==
    IF docs = << >> THEN acc
    ELSE LET k == Head(ids)
             old == IF k \in DOMAIN acc THEN acc[k] ELSE [totalAmount |-> 0, count |-> 0]
             new == [totalAmount |-> old.totalAmount + Head(docs).amount,
                     count |-> old.count + 1]
         IN  GroupSum(Tail(docs), Tail(ids),
                      [x \in DOMAIN acc \cup {k} |-> IF x = k THEN new ELSE acc[x]])

\* The documents of the $group stage, avgAmount: { $avg: '$amount' } exact.
GroupRows(docs, ids) ==
    LET acc == GroupSum(docs, ids, << >>)
    IN  {[id |-> k, totalAmount |-> acc[k].totalAmount, count |-> acc[k].count,
          avgAmount |-> Ratio(acc[k].totalAmount, acc[k].count)] : k \in DOMAIN acc}

\* The orders of rows in which every row stands before every later one,
\* before being the set of the pairs that may stand in this order.
Orders(rows, before) ==
    {s \in [1..Cardinality(rows) -> rows] :
        /\ \A i, j \in DOMAIN s : i # j => s[i] # s[j]
        /\ \A i, j \in DOMAIN s : i < j => << s[i], s[j] >> \in before}

\* A sort by totalAmount ascending.
SortTotalAscending(rows) ==
    Orders(rows, {p \in rows \X rows : p[1].totalAmount <= p[2].totalAmount})

\* $sort: { totalAmount: -1 }; rows of equal totalAmount come in any order.
SortTotalDescending(rows) ==
    Orders(rows, {p \in rows \X rows : p[1].totalAmount >= p[2].totalAmount})

\* _id: '$category'
CategoriesOf(docs) == [i \in DOMAIN docs |-> docs[i].category]
\* _id: '$source'
SourcesOf(docs) == [i \in DOMAIN docs |-> docs[i].source]

\* expenseSchema.statics.getCategoryWiseExpenses: the possible results.
GetCategoryWiseExpenses(docs, userId, startDate, endDate) ==
    LET matched == MatchWindow(docs, userId, startDate, endDate)
    IN  SortTotalDescending(GroupRows(matched, CategoriesOf(matched)))

\* incomeSchema.statics.getSourceWiseIncome: the possible results.
GetSourceWiseIncome(docs, userId, startDate, endDate) ==
    LET matched == MatchWindow(docs, userId, startDate, endDate)
    IN  SortTotalDescending(GroupRows(matched, SourcesOf(matched)))

BreakdownInputs ==
    [fn : {"expenses"}, docs : SeqsUpTo(ExpenseDocs, MaxDocs), userId : Owners,
     window : Windows]
    \cup [fn : {"income"}, docs : SeqsUpTo(IncomeDocs, MaxDocs), userId : Owners,
          window : Windows]

InitBreakdown ==
    /\ goals = << >>
    /\ now = 0
    /\ res = Response("none", 0, "")
    /\ reqs = << >>
    /\ input \in BreakdownInputs
    /\ output = NoInput

CategoryBreakdown ==
    /\ input.fn = "expenses"
    /\ output = NoInput
    /\ \E rows \in GetCategoryWiseExpenses(input.docs, input.userId,
                      input.window.startDate, input.window.endDate) :
          output' = [fn |-> "breakdown", rows |-> rows]
    /\ UNCHANGED << goals, now, res, reqs, input >>

SourceBreakdown ==
    /\ input.fn = "income"
    /\ output = NoInput
    /\ \E rows \in GetSourceWiseIncome(input.docs, input.userId,
                      input.window.startDate, input.window.endDate) :
          output' = [fn |-> "breakdown", rows |-> rows]
    /\ UNCHANGED << goals, now, res, reqs, input >>

NextBreakdown == CategoryBreakdown \/ SourceBreakdown

SpecBreakdown == InitBreakdown /\ [][NextBreakdown]_vars

\* ---------------------------------------------------------- monthly trend

\* Calendar dates as Date holds them: month 0 is January.
Day(y, m, d) == [year |-> y, month |-> m, day |-> d]
Leap(y) == y % 4 = 0 /\ (y % 100 # 0 \/ y % 400 = 0)

\* a >= b for dates at midnight.
OnOrAfter(a, b) ==
    \/ a.year > b.year
    \/ a.year = b.year /\ a.month > b.month
    \/ a.year = b.year /\ a.month = b.month /\ a.day >= b.day

\* date.setMonth(m): the month may lie in an earlier or later year, and a day
\* the month does not have carries into the next month.
SetMonth(date, m) ==
    LET y == date.year + (m \div 12)
        mm == m % 12
    IN  IF date.day <= DaysIn(mm, Leap(y)) THEN Day(y, mm, date.day)
        ELSE Day(y + ((mm + 1) \div 12), (mm + 1) % 12, date.day - DaysIn(mm, Leap(y)))

\* startDate of the trend: months back from today, then the first of the month.
TrendStart(today, months) ==
    LET back == SetMonth(today, today.month - months)
    IN  Day(back.year, back.month, 1)

TrendDates ==
    {Day(2023, 10, 30), Day(2023, 11, 1), Day(2023, 11, 20), Day(2024, 0, 10),
     Day(2024, 1, 29), Day(2024, 2, 1)}
Todays == {Day(2024, 0, 15), Day(2024, 1, 29), Day(2024, 2, 31)}
MonthsBack == {1, 2, 3}

\* Expense or income documents of the trend.
TrendDocs ==
    {[user |-> "u1", date |-> d, amount |-> 30] : d \in TrendDates}
    \cup {[user |-> "u1", date |-> Day(2023, 11, 20), amount |-> 50],
          [user |-> "u2", date |-> Day(2024, 0, 10), amount |-> 100]}

\* _id: { year: { $year: '$date' }, month: { $month: '$date' } }
YearMonthsOf(docs) ==
    [i \in DOMAIN docs |-> [year |-> docs[i].date.year, month |-> docs[i].date.month + 1]]

\* A sort by month before year.
SortMonthYear(rows) ==
    Orders(rows, {p \in rows \X rows :
                     \/ p[1].id.month < p[2].id.month
                     \/ p[1].id.month = p[2].id.month /\ p[1].id.year <= p[2].id.year})

\* $sort: { '_id.year': 1, '_id.month': 1 }
SortYearMonth(rows) ==
    Orders(rows, {p \in rows \X rows :
                     \/ p[1].id.year < p[2].id.year
                     \/ p[1].id.year = p[2].id.year /\ p[1].id.month <= p[2].id.month})

\* expenseSchema.statics.getMonthlyTrend and
\* incomeSchema.statics.getMonthlyIncomeTrend: the possible results.
GetMonthlyTrend(docs, userId, months, today) ==
    LET startDate == TrendStart(today, months)
        matched == SelectSeq(docs, LAMBDA r : r.user = userId
                                              /\ OnOrAfter(r.date, startDate))
        acc == GroupSum(matched, YearMonthsOf(matched), << >>)
    IN  SortYearMonth({[id |-> k, totalAmount |-> acc[k].totalAmount,
                        count |-> acc[k].count] : k \in DOMAIN acc})

TrendInputs ==
    [fn : {"trend"}, docs : SeqsUpTo(TrendDocs, MaxDocs), userId : Owners,
     months : MonthsBack, today : Todays]

InitTrend ==
    /\ goals = << >>
    /\ now = 0
    /\ res = Response("none", 0, "")
    /\ reqs = << >>
    /\ input \in TrendInputs
    /\ output = NoInput

MonthlyTrend ==
    /\ input.fn = "trend"
    /\ output = NoInput
    /\ \E rows \in GetMonthlyTrend(input.docs, input.userId, input.months, input.today) :
          output' = [fn |-> "trend", rows |-> rows]
    /\ UNCHANGED << goals, now, res, reqs, input >>

NextTrend == MonthlyTrend

SpecTrend == InitTrend /\ [][NextTrend]_vars

\* ------------------------------------------------ dashboard date ranges

DaysInYear(y) == IF Leap(y) THEN 366 ELSE 365

RECURSIVE DaysBeforeYear(_)
\* Days from Sunday 1 January 2023 to 1 January of year y.
DaysBeforeYear(y) ==
    IF y = 2023 THEN 0
    ELSE IF y > 2023 THEN DaysBeforeYear(y - 1) + DaysInYear(y - 1)
    ELSE DaysBeforeYear(y + 1) - DaysInYear(y)

RECURSIVE DaysBeforeMonth(_, _)
DaysBeforeMonth(y, m) ==
    IF m = 0 THEN 0 ELSE DaysBeforeMonth(y, m - 1) + DaysIn(m - 1, Leap(y))

\* new Date(y, m, d), as a count of days: m and d may lie outside the year
\* and the month.
MakeDay(y, m, d) ==
    LET yy == y + (m \div 12)
        mm == m % 12
    IN  DaysBeforeYear(yy) + DaysBeforeMonth(yy, mm) + d - 1

\* A week that starts on Monday.
GetDayFromMonday(n) == (n + 6) % 7

\* getDay(): 0 is Sunday.
GetDay(n) == n % 7

PeriodTokens == {"week", "month", "year", "quarter"}

\* The switch (period) of GET /dashboard; startDate and prevStartDate are
\* the first instant of their day, endDate and prevEndDate the last
\* millisecond of theirs.
DashboardRanges(period, today) ==
    LET y == today.year
        m == today.month
        n == MakeDay(y, m, today.day)
    IN  IF period = Some("week")
        THEN LET startDate == MakeDay(y, m, today.day - GetDay(n))
                 endDate == startDate + 6
             IN  [fn |-> "ranges", startDate |-> startDate, endDate |-> endDate,
                  prevStartDate |-> startDate - 7, prevEndDate |-> endDate - 7]
        ELSE IF period = Some("year")
        THEN [fn |-> "ranges", startDate |-> MakeDay(y, 0, 1),
              endDate |-> MakeDay(y, 11, 31),
              prevStartDate |-> MakeDay(y - 1, 0, 1),
              prevEndDate |-> MakeDay(y - 1, 11, 31)]
        ELSE [fn |-> "ranges", startDate |-> MakeDay(y, m, 1),
              endDate |-> MakeDay(y, m + 1, 0),
              prevStartDate |-> MakeDay(y, m - 1, 1),
              prevEndDate |-> MakeDay(y, m, 0)]

ReferenceDays == {Day(y, m, d) : y \in {2023, 2024}, m \in Months, d \in 1..31}

RangeInputs ==
    {i \in [fn : {"ranges"}, period : Opt(PeriodTokens), today : ReferenceDays] :
        i.today.day <= DaysIn(i.today.month, Leap(i.today.year))}

InitRanges ==
    /\ goals = << >>
    /\ now = 0
    /\ res = Response("none", 0, "")
    /\ reqs = << >>
    /\ input \in RangeInputs
    /\ output = NoInput

\* GET /api/analytics/dashboard, up to its date ranges.
GetDashboardRanges ==
    /\ input.fn = "ranges"
    /\ output = NoInput
    /\ output' = DashboardRanges(input.period, input.today)
    /\ UNCHANGED << goals, now, res, reqs, input >>

NextRanges == GetDashboardRanges

SpecRanges == InitRanges /\ [][NextRanges]_vars

\* ----------------------------------------------- spending-patterns window

PatternInputs ==
    {i \in [fn : {"patterns"}, months : MonthsBack, today : ReferenceDays] :
        i.today.day <= DaysIn(i.today.month, Leap(i.today.year))}

InitPatterns ==
    /\ goals = << >>
    /\ now = 0
    /\ res = Response("none", 0, "")
    /\ reqs = << >>
    /\ input \in PatternInputs
    /\ output = NoInput

\* GET /api/analytics/spending-patterns, up to its startDate, which
\* getMonthlyTrend and getMonthlyIncomeTrend compute in the same way.
GetSpendingPatternsStart ==
    /\ input.fn = "patterns"
    /\ output = NoInput
    /\ output' = [fn |-> "patterns", startDate |-> TrendStart(input.today, input.months)]
    /\ UNCHANGED << goals, now, res, reqs, input >>

NextPatterns == GetSpendingPatternsStart

SpecPatterns == InitPatterns /\ [][NextPatterns]_vars

\* ------------------------------------------------------ goals by priority

\* The code of the first character of a priority; the four priorities differ
\* in it, so it decides the order of the strings.
FirstChar(p) ==
    CASE p = "high" -> 104
      [] p = "low" -> 108
      [] p = "medium" -> 109
      [] p = "urgent" -> 117

\* Goal documents as the query sees them.
PriorityGoals ==
    {[user |-> "u1", status |-> "active", priority |-> p, targetDate |-> d] :
        p \in Priorities, d \in DateInputs}
    \cup {[user |-> "u1", status |-> "paused", priority |-> "urgent", targetDate |-> 0],
          [user |-> "u2", status |-> "active", priority |-> "urgent", targetDate |-> 0]}

\* goalSchema.statics.getGoalsByPriority: find({ user, status: 'active' })
\* .sort({ priority: 1, targetDate: 1 }); priority is a String, so the sort
\* compares the strings.  Each result carries its place in the collection.
GetGoalsByPriority(docs, userId) ==
    LET found == {[id |-> i, goal |-> docs[i]] :
                     i \in {j \in DOMAIN docs : /\ docs[j].user = userId
                                                /\ docs[j].status = "active"}}
    IN  Orders(found, {p \in found \X found :
                          \/ FirstChar(p[1].goal.priority) < FirstChar(p[2].goal.priority)
                          \/ /\ p[1].goal.priority = p[2].goal.priority
                             /\ p[1].goal.targetDate <= p[2].goal.targetDate})

PriorityInputsOf == [fn : {"byPriority"}, docs : SeqsUpTo(PriorityGoals, MaxGoals),
                     userId : Owners]

InitPriority ==
    /\ goals = << >>
    /\ now = 0
    /\ res = Response("none", 0, "")
    /\ reqs = << >>
    /\ input \in PriorityInputsOf
    /\ output = NoInput

GoalsByPriority ==
    /\ input.fn = "byPriority"
    /\ output = NoInput
    /\ \E rows \in GetGoalsByPriority(input.docs, input.userId) :
          output' = [fn |-> "byPriority", rows |-> rows]
    /\ UNCHANGED << goals, now, res, reqs, input >>

NextPriority == GoalsByPriority

SpecPriority == InitPriority /\ [][NextPriority]_vars

\* ----------------------------------------------------------- properties

RECURSIVE SumAmounts(_)
SumAmounts(cs) == IF cs = << >> THEN 0 ELSE cs[1].amount + SumAmounts(Tail(cs))

Kept(id) == id \in DOMAIN goals /\ id \in DOMAIN goals'

\* C1: after any sequence of successful contributions (manual and auto-save)
\* the amounts of the contributions list add up to currentAmount.
C1_SumOfContributions ==
    \A id \in DOMAIN goals :
        SumAmounts(goals[id].contributions) = goals[id].currentAmount

C1_Witness ==
    \E id \in DOMAIN goals :
        /\ Len(goals[id].contributions) >= 2
        /\ \E i \in DOMAIN goals[id].contributions :
              goals[id].contributions[i].source = "auto-save"
        /\ \E i \in DOMAIN goals[id].contributions :
              goals[id].contributions[i].source = "manual"

\* The answers of POST /:id/contribute to a valid amount on a goal it found.
ContributeMessages ==
    {"Contribution added successfully!", "Cannot contribute to inactive goal.",
     "Server error while adding contribution."}

\* C2: a contribution to a paused, completed or cancelled goal is answered
\* with the invalid-state error and leaves the stored goal as it was
\* (currentAmount, contributions and every milestone's flag and date).
C2_InactiveRejected ==
    [][\A id \in GoalIds :
          ( /\ id \in DOMAIN goals
            /\ goals[id].status \in {"paused", "completed", "cancelled"}
            /\ res'.message \in ContributeMessages )
          => \A u \in Users, amount \in Opt(AmountInputs), source \in Opt(SourceInputs) :
                ( /\ Found(id, u)
                  /\ Has(amount) /\ Val(amount) > 0
                  /\ Contribute(u, id, amount, source) )
                => /\ res'.code = 400
                   /\ res'.message = "Cannot contribute to inactive goal."
                   /\ goals'[id].currentAmount = goals[id].currentAmount
                   /\ goals'[id].contributions = goals[id].contributions
                   /\ goals'[id].milestones = goals[id].milestones
                   /\ goals' = goals]_vars

C2_Witness ==
    /\ res.message = "Cannot contribute to inactive goal."
    /\ \E id \in DOMAIN goals :
          /\ goals[id].status = "paused"
          /\ goals[id].currentAmount > 0
          /\ goals[id].milestones[1].isAchieved
          /\ ~goals[id].milestones[4].isAchieved

\* C3: an achieved milestone stays achieved under every later operation on
\* the goal, a change of the target amount included.
C3_MilestoneMonotonic ==
    [][\A id \in GoalIds : Kept(id) =>
          \A i \in DOMAIN goals[id].milestones :
              goals[id].milestones[i].isAchieved
                  => goals'[id].milestones[i].isAchieved]_vars

\* C4: the status becomes completed exactly when a save finds
\* currentAmount >= targetAmount on an active goal, and completedAt, once
\* set, is never set again or changed.
C4_CompletedOnce ==
    [][\A id \in GoalIds : Kept(id) =>
          /\ Has(goals[id].completedAt)
                => goals'[id].completedAt = goals[id].completedAt
          /\ (goals[id].status # "completed" /\ goals'[id].status = "completed")
                => /\ goals'[id].currentAmount >= goals'[id].targetAmount
                   /\ goals'[id].completedAt = Some(now)]_vars

AutoSaveSucceeded == res.code = 200 /\ res.message = "Auto-saved!"

\* C7, as stated: a successful run adds one auto-save contribution of the
\* configured amount, stamps lastAutoSave with the time of the call, and an
\* immediately repeated request is rejected as not due.
C7_RepeatNotDue ==
    [][\A u \in Users, id \in GoalIds :
          ( /\ Found(id, u)
            /\ AutoSaveSucceeded
            /\ goals[id].autoSave.lastAutoSave = Some(now)
            /\ AutoSave(u, id) )
          => /\ res'.code = 400
             /\ res'.message = "Auto-save is not due yet."]_vars

\* C7, amended: a successful run adds exactly one contribution, of source
\* auto-save and of the configured amount, raises currentAmount by it and
\* stamps lastAutoSave with the time of the call; an immediately repeated
\* request is rejected, as not due, or as inactive when the run completed
\* the goal.
C7_AutoSaveRun ==
    [][\A u \in Users, id \in GoalIds :
          /\ ( Found(id, u) /\ res'.code = 200 /\ AutoSave(u, id) )
             => /\ goals'[id].contributions =
                      Append(goals[id].contributions,
                             [amount |-> goals[id].autoSave.amount,
                              source |-> "auto-save"])
                /\ goals'[id].currentAmount =
                      goals[id].currentAmount + goals[id].autoSave.amount
                /\ goals'[id].autoSave.lastAutoSave = Some(now)
          /\ ( /\ Found(id, u)
               /\ AutoSaveSucceeded
               /\ goals[id].autoSave.lastAutoSave = Some(now)
               /\ AutoSave(u, id) )
             => /\ res'.code = 400
                /\ goals' = goals
                /\ res'.message =
                      IF goals[id].status = "active"
                      THEN "Auto-save is not due yet."
                      ELSE "Cannot auto-save to inactive goal."]_vars

C7_Witness ==
    /\ res.message = "Auto-save is not due yet."
    /\ \E id \in DOMAIN goals :
          /\ goals[id].autoSave.lastAutoSave = Some(now)
          /\ goals[id].status = "active"
          /\ Len(goals[id].contributions) = 1
          /\ goals[id].contributions[1].source = "auto-save"

\* C8: an auto-save request on a goal that is disabled for auto-save (or has
\* an amount <= 0), is not active, or is not due, is rejected and changes
\* nothing of the goal.
C8_AutoSaveRejected ==
    [][\A u \in Users, id \in GoalIds :
          ( /\ Found(id, u)
            /\ \/ ~goals[id].autoSave.enabled
               \/ goals[id].autoSave.amount <= 0
               \/ goals[id].status # "active"
               \/ ~IsDue(goals[id].autoSave, now)
            /\ AutoSave(u, id) )
          => /\ res'.code = 400
             /\ goals' = goals]_vars

C8_Witness ==
    /\ res.message = "Auto-save is not enabled for this goal."
    /\ \E id \in DOMAIN goals :
          /\ goals[id].autoSave.enabled
          /\ goals[id].autoSave.amount = 0
          /\ goals[id].status = "active"
          /\ goals[id].currentAmount > 0

\* The answers of PUT /:id.
UpdateMessages ==
    {"Goal updated successfully!", "Target amount must be greater than 0.",
     "Target date must be in the future.", "Server error while updating goal."}

\* C9: field edits leave currentAmount and the contributions list as they
\* were; currentAmount changes only by the amount of a contribution that is
\* recorded in the same step, and never decreases.
C9_OnlyContributionsChangeAmount ==
    [][\A id \in GoalIds : Kept(id) =>
          /\ goals'[id].currentAmount >= goals[id].currentAmount
          /\ goals'[id].currentAmount # goals[id].currentAmount
                => /\ Len(goals'[id].contributions) = Len(goals[id].contributions) + 1
                   /\ SubSeq(goals'[id].contributions, 1, Len(goals[id].contributions))
                         = goals[id].contributions
                   /\ goals'[id].contributions[Len(goals'[id].contributions)].amount
                         = goals'[id].currentAmount - goals[id].currentAmount
          /\ res'.message \in UpdateMessages
                => /\ goals'[id].currentAmount = goals[id].currentAmount
                   /\ goals'[id].contributions = goals[id].contributions]_vars

C9_Witness ==
    /\ res.message = "Goal updated successfully!"
    /\ \E id \in DOMAIN goals :
          /\ goals[id].currentAmount > goals[id].targetAmount
          /\ Len(goals[id].contributions) >= 2

\* C5: when two requests that add to the same goal both load it before
\* either saves and both succeed, currentAmount has grown by both amounts
\* and equals the sum of the recorded contributions.
C5_NoLostUpdate ==
    \A h1 \in Slots, h2 \in Slots :
        ( /\ h1 # h2
          /\ reqs[h1].pc = "done" /\ reqs[h1].code = 200
          /\ reqs[h2].pc = "done" /\ reqs[h2].code = 200
          /\ reqs[h1].id = reqs[h2].id
          /\ reqs[h1].loaded = reqs[h2].loaded )
        => LET g == goals[reqs[h1].id]
           IN  /\ g.currentAmount = Val(reqs[h1].loaded).currentAmount
                                       + reqs[h1].amount + reqs[h2].amount
               /\ g.currentAmount = SumAmounts(g.contributions)

\* The period of a frequency, in days, as the claim states it.
Period(frequency) ==
    CASE frequency = "daily" -> 1
      [] frequency = "weekly" -> 7
      [] frequency = "monthly" -> 30

\* C6: the due check answers due exactly when lastAutoSave is unset or at
\* least the period of the frequency has elapsed since it (daily 1 day,
\* weekly 7 days, monthly 30 days): weekly is not due after 6 days and due
\* after 7.
C6_DueIffPeriodElapsed ==
    output.fn = "isDue" =>
        LET last == input.autoSave.lastAutoSave
            frequency == input.autoSave.frequency
        IN  /\ output.isDue <=>
                  ( ~Has(last) \/ input.now - Val(last) >= Period(frequency) )
            /\ ( frequency = "weekly" /\ Has(last) /\ input.now - Val(last) = 6 )
                  => ~output.isDue
            /\ ( frequency = "weekly" /\ Has(last) /\ input.now - Val(last) = 7 )
                  => output.isDue

C6_Witness ==
    /\ output.fn = "isDue"
    /\ input.autoSave.frequency = "weekly"
    /\ Has(input.autoSave.lastAutoSave)
    /\ input.now - Val(input.autoSave.lastAutoSave) = 7
    /\ output.isDue

\* C10: the budget status is the first match of: over-budget if utilization
\* > 100, warning if utilization > 80, projected-overspend if the projected
\* monthly total exceeds the budget, on-track otherwise; utilization 50 with
\* a projection within the budget is on-track, 85 is warning, 105 is
\* over-budget, 60 with a projection above the budget is projected-overspend.
C10_BudgetStatus ==
    output.fn = "budget" =>
        LET u == output.budgetUtilization
            over == output.projectedMonthlyTotal.num
                       > output.monthlyBudget * output.projectedMonthlyTotal.den
            s == output.budgetStatus
        IN  /\ s \in {"over-budget", "warning", "projected-overspend", "on-track"}
            /\ s = "over-budget" <=> u.num > 100 * u.den
            /\ s = "warning" <=> ( u.num <= 100 * u.den /\ u.num > 80 * u.den )
            /\ s = "projected-overspend" <=> ( u.num <= 80 * u.den /\ over )
            /\ s = "on-track" <=> ( u.num <= 80 * u.den /\ ~over )
            /\ ( u.num = 50 * u.den /\ ~over ) => s = "on-track"
            /\ u.num = 85 * u.den => s = "warning"
            /\ u.num = 105 * u.den => s = "over-budget"
            /\ ( u.num = 60 * u.den /\ over ) => s = "projected-overspend"

C10_Witness ==
    /\ output.fn = "budget"
    /\ output.budgetUtilization.num = 60 * output.budgetUtilization.den
    /\ output.budgetStatus = "projected-overspend"

\* The largest number of points of the factor a label belongs to.
FactorCap(label) ==
    IF label \in {"Excellent savings rate", "Good savings rate", "Positive savings",
                  "Negative savings"} THEN 30
    ELSE IF label \in {"Excellent budget control", "Good budget control",
                       "Slight budget overspend", "Significant budget overspend"} THEN 25
    ELSE IF label \in {"Excellent goal achievement", "Good goal progress",
                       "Goals set but limited progress", "No active financial goals"}
    THEN 20
    ELSE IF label \in {"Consistent spending patterns", "Moderately consistent spending",
                       "Inconsistent spending patterns"} THEN 15
    ELSE IF label \in {"Emergency fund in progress", "Emergency fund started",
                       "No emergency fund"} THEN 10
    ELSE 0

\* C11: the health score is an integer in 0..100 and equals the sum of the
\* points of the reported score factors, each at most its factor's maximum
\* (30, 25, 20, 15, 10) and each factor reported at most once.
C11_HealthScore ==
    output.fn = "health" =>
        LET fs == output.scoreFactors
        IN  /\ output.healthScore \in 0..100
            /\ output.healthScore = SumSeq([i \in 1..Len(fs) |-> fs[i].points])
            /\ \A i \in 1..Len(fs) : fs[i].points \in 0..FactorCap(fs[i].factor)
            /\ \A i, j \in 1..Len(fs) :
                  FactorCap(fs[i].factor) = FactorCap(fs[j].factor) => i = j

\* Every factor at its maximum: the score is 100 with five reported factors.
C11_Witness ==
    /\ output.fn = "health"
    /\ output.healthScore = 100
    /\ Len(output.scoreFactors) = 5

Eq(r, k) == r.num = k * r.den

\* The inputs of the worked example: savings rate 30%, utilization 70%, one
\* active goal at 30% progress, no completed goal, fewer than two months of
\* expense data and no emergency-fund goal.
HealthExample ==
    /\ input.fn = "health"
    /\ output.fn = "health"
    /\ Eq(output.savingsRate, 30)
    /\ Eq(output.budgetUtilization, 70)
    /\ output.activeGoals = 1
    /\ output.completedGoals = 0
    /\ Eq(output.totalGoalProgress, 30)
    /\ Len(SelectSeq(input.months, Has)) < 2
    /\ \A i \in 1..Len(input.goals) : input.goals[i].category # "emergency-fund"

\* C12: the status label follows from the total score alone (excellent from
\* 80, good from 60, fair from 40, poor below), and the worked example scores
\* 70 with status good.
C12_HealthStatus ==
    output.fn = "health" =>
        /\ output.healthStatus =
              (IF output.healthScore >= 80 THEN "excellent"
               ELSE IF output.healthScore >= 60 THEN "good"
               ELSE IF output.healthScore >= 40 THEN "fair"
               ELSE "poor")
        /\ HealthExample => (output.healthScore = 70 /\ output.healthStatus = "good")

C12_Witness == HealthExample /\ output.healthScore = 70

\* The validation errors of the three writing requests.
CreateInvalid(body) ==
    \/ body.title = ""
    \/ ~Has(body.targetAmount) \/ Val(body.targetAmount) <= 0
    \/ ~Has(body.targetDate) \/ Val(body.targetDate) <= now
UpdateInvalid(body) ==
    \/ Has(body.targetAmount) /\ Val(body.targetAmount) <= 0
    \/ Has(body.targetDate) /\ Val(body.targetDate) <= now
ContributeInvalid(amount) == ~Has(amount) \/ Val(amount) <= 0

ValidationMessages ==
    {"Title, target amount, and target date are required.",
     "Target amount must be greater than 0.", "Target date must be in the future.",
     "Valid contribution amount is required."}

Rejected400 == res'.code = 400 /\ res'.message \in ValidationMessages /\ goals' = goals

\* C13, as stated: a create, update or contribution request with a validation
\* error is answered with the validation failure whatever the store holds,
\* and creates or modifies no goal.
C13_ValidationBeforeStore ==
    [][/\ \A id \in GoalIds : id \notin DOMAIN goals =>
             \A u \in Users, body \in CreateBodies :
                (CreateInvalid(body) /\ Create(u, id, body)) => Rejected400
       /\ \A u \in Users, id \in GoalIds, body \in UpdateBodies :
             (UpdateInvalid(body) /\ Update(u, id, body)) => Rejected400
       /\ \A u \in Users, id \in GoalIds, amount \in Opt(AmountInputs),
             source \in Opt(SourceInputs) :
             (ContributeInvalid(amount) /\ Contribute(u, id, amount, source))
                => Rejected400]_vars

\* C13, amended: create and contribute answer a validation error before any
\* lookup; update looks the goal up first, so it answers not found for a
\* goal the caller does not own and the validation failure otherwise; in
\* every case no goal is created or modified.
C13_ValidationRejected ==
    [][/\ \A id \in GoalIds : id \notin DOMAIN goals =>
             \A u \in Users, body \in CreateBodies :
                (CreateInvalid(body) /\ Create(u, id, body)) => Rejected400
       /\ \A u \in Users, id \in GoalIds, body \in UpdateBodies :
             (UpdateInvalid(body) /\ Update(u, id, body))
                => /\ goals' = goals
                   /\ IF Found(id, u) THEN Rejected400
                      ELSE res'.code = 404 /\ res'.message = "Goal not found."
       /\ \A u \in Users, id \in GoalIds, amount \in Opt(AmountInputs),
             source \in Opt(SourceInputs) :
             (ContributeInvalid(amount) /\ Contribute(u, id, amount, source))
                => Rejected400]_vars

\* An update of an existing goal was answered with a validation failure.
C13_Witness ==
    /\ GoalIds \subseteq DOMAIN goals
    /\ res.code = 400
    /\ res.message \in {"Target amount must be greater than 0.",
                        "Target date must be in the future."}

\* The goal id is in the store and belongs to u.
Owns(u, id) == id \in DOMAIN goals /\ goals[id].user = u

\* C14, as stated: every operation on a goal id by a user who does not own
\* that goal ends in a not-found failure and leaves the goals unchanged.
C14_NotOwnerNotFound ==
    [][\A id \in GoalIds, u \in Users :
          ( /\ ~Owns(u, id)
            /\ \/ Get(u, id)
               \/ \E body \in UpdateBodies : Update(u, id, body)
               \/ Delete(u, id)
               \/ \E amount \in Opt(AmountInputs), source \in Opt(SourceInputs) :
                     Contribute(u, id, amount, source)
               \/ AutoSave(u, id) )
          => /\ res'.code = 404
             /\ res'.message = "Goal not found."
             /\ goals' = goals]_vars

\* C14, amended: such an operation leaves the goals unchanged and ends in a
\* not-found failure, except that a contribution without a positive amount
\* is rejected as invalid before the lookup.
C14_NotOwnerRejected ==
    [][\A id \in GoalIds, u \in Users : ~Owns(u, id) =>
          /\ ( \/ Get(u, id)
               \/ \E body \in UpdateBodies : Update(u, id, body)
               \/ Delete(u, id)
               \/ AutoSave(u, id) )
             => /\ res'.code = 404
                /\ res'.message = "Goal not found."
                /\ goals' = goals
          /\ \A amount \in Opt(AmountInputs), source \in Opt(SourceInputs) :
                Contribute(u, id, amount, source)
                => /\ goals' = goals
                   /\ IF ContributeInvalid(amount)
                      THEN /\ res'.code = 400
                           /\ res'.message = "Valid contribution amount is required."
                      ELSE /\ res'.code = 404
                           /\ res'.message = "Goal not found."]_vars

\* A stored goal of u1 is still there, unchanged, after a request was
\* answered not found.
C14_Witness ==
    /\ GoalIds \subseteq DOMAIN goals
    /\ \A id \in GoalIds : goals[id] \in StoredGoals
    /\ res.code = 404
    /\ res.message = "Goal not found."

\* The key of a ledger document: the category of an expense, the source of
\* an income.
KeyOfDoc(r) == IF input.fn = "expenses" THEN r.category ELSE r.source

\* The positions of the input's documents that belong to the owner and lie
\* in the window.
Matching ==
    {i \in DOMAIN input.docs :
        /\ input.docs[i].user = input.userId
        /\ input.docs[i].date \in input.window.startDate..input.window.endDate}

RECURSIVE SumOver(_, _)
SumOver(I, f) ==
    IF I = {} THEN 0
    ELSE LET i == CHOOSE x \in I : TRUE IN f[i] + SumOver(I \ {i}, f)

\* The food 100, food 50, transport 30 example (allowance and stipend for
\* income), among documents that do not match.
BreakdownExample ==
    /\ output.fn = "breakdown"
    /\ Cardinality(Matching) = 3
    /\ \E i, j, k \in Matching :
          /\ KeyOfDoc(input.docs[i]) \in {"food", "allowance"}
          /\ input.docs[i].amount = 100
          /\ KeyOfDoc(input.docs[j]) = KeyOfDoc(input.docs[i])
          /\ input.docs[j].amount = 50
          /\ KeyOfDoc(input.docs[k]) \in {"transport", "stipend"}
          /\ input.docs[k].amount = 30

\* C15: the breakdown has one row per key with a matching document, with the
\* exact sum, the number and the mean of that key's matching documents, in
\* descending order of totalAmount; documents of other owners or outside the
\* window contribute nothing.
C15_Breakdown ==
    output.fn = "breakdown" =>
        LET rows == output.rows
            amounts == [i \in DOMAIN input.docs |-> input.docs[i].amount]
            Of(k) == {i \in Matching : KeyOfDoc(input.docs[i]) = k}
        IN  /\ {rows[n].id : n \in DOMAIN rows}
                 = {KeyOfDoc(input.docs[i]) : i \in Matching}
            /\ \A n, m \in DOMAIN rows : rows[n].id = rows[m].id => n = m
            /\ \A n \in DOMAIN rows :
                  /\ rows[n].totalAmount = SumOver(Of(rows[n].id), amounts)
                  /\ rows[n].count = Cardinality(Of(rows[n].id))
                  /\ rows[n].avgAmount.num * rows[n].count
                        = rows[n].totalAmount * rows[n].avgAmount.den
            /\ \A n, m \in DOMAIN rows :
                  n < m => rows[n].totalAmount >= rows[m].totalAmount
            /\ BreakdownExample =>
                  /\ Len(rows) = 2
                  /\ rows[1].id \in {"food", "allowance"}
                  /\ rows[1].totalAmount = 150 /\ rows[1].count = 2
                  /\ Eq(rows[1].avgAmount, 75)
                  /\ rows[2].id \in {"transport", "stipend"}
                  /\ rows[2].totalAmount = 30 /\ rows[2].count = 1
                  /\ Eq(rows[2].avgAmount, 30)

C15_Witness == BreakdownExample /\ Len(output.rows) = 2

\* The positions of the input's documents that belong to the owner and are
\* dated on or after the trend's start date.
TrendMatching ==
    {i \in DOMAIN input.docs :
        /\ input.docs[i].user = input.userId
        /\ OnOrAfter(input.docs[i].date, TrendStart(input.today, input.months))}

\* The number of the calendar month of a date, counted from year 0.
MonthNumber(date) == date.year * 12 + date.month

\* The matching documents lie in two months M and M + 2.
TrendGap ==
    /\ output.fn = "trend"
    /\ \E i, j \in TrendMatching :
          /\ MonthNumber(input.docs[j].date) = MonthNumber(input.docs[i].date) + 2
          /\ \A k \in TrendMatching :
                MonthNumber(input.docs[k].date)
                   \in {MonthNumber(input.docs[i].date), MonthNumber(input.docs[j].date)}

\* C16: the monthly trend has exactly one bucket per (year, month) with a
\* matching document, none for a month without one, in ascending order of
\* year, then month; documents in months M and M + 2 only give two buckets.
C16_MonthlyTrend ==
    output.fn = "trend" =>
        LET rows == output.rows
            amounts == [i \in DOMAIN input.docs |-> input.docs[i].amount]
            In(id) == {i \in TrendMatching :
                          /\ input.docs[i].date.year = id.year
                          /\ input.docs[i].date.month + 1 = id.month}
        IN  /\ {rows[n].id : n \in DOMAIN rows}
                 = {[year |-> input.docs[i].date.year,
                     month |-> input.docs[i].date.month + 1] : i \in TrendMatching}
            /\ \A n, m \in DOMAIN rows : rows[n].id = rows[m].id => n = m
            /\ \A n \in DOMAIN rows :
                  /\ rows[n].count = Cardinality(In(rows[n].id))
                  /\ rows[n].count >= 1
                  /\ rows[n].totalAmount = SumOver(In(rows[n].id), amounts)
            /\ \A n, m \in DOMAIN rows :
                  n < m => rows[n].id.year * 12 + rows[n].id.month
                              < rows[m].id.year * 12 + rows[m].id.month
            /\ TrendGap => Len(rows) = 2

\* Documents in December and February only, across the turn of the year.
C16_Witness ==
    /\ TrendGap
    /\ Len(output.rows) = 2
    /\ output.rows[1].id.year < output.rows[2].id.year

\* The first and the last day of calendar month m of year y, as day counts.
FirstOfMonth(y, m) == DaysBeforeYear(y) + DaysBeforeMonth(y, m)
LastOfMonth(y, m) == FirstOfMonth(y, m) + DaysIn(m, Leap(y)) - 1

\* C17: for every reference date and period token the current window is the
\* calendar week (Sunday to Saturday), month or year that contains the date
\* (month for an unknown or absent token), and the previous window is the
\* calendar unit just before it: it ends on the day before the current
\* window starts.
C17_PreviousWindow ==
    output.fn = "ranges" =>
        LET y == input.today.year
            m == input.today.month
            ref == FirstOfMonth(y, m) + input.today.day - 1
            py == IF m = 0 THEN y - 1 ELSE y
            pm == IF m = 0 THEN 11 ELSE m - 1
        IN  /\ output.startDate <= ref /\ ref <= output.endDate
            /\ output.prevStartDate <= output.prevEndDate
            /\ output.prevEndDate + 1 = output.startDate
            /\ IF input.period = Some("week")
               THEN /\ output.startDate % 7 = 0
                    /\ output.endDate = output.startDate + 6
                    /\ output.prevStartDate = output.startDate - 7
                    /\ output.prevEndDate = output.endDate - 7
               ELSE IF input.period = Some("year")
               THEN /\ output.startDate = FirstOfMonth(y, 0)
                    /\ output.endDate = LastOfMonth(y, 11)
                    /\ output.prevStartDate = FirstOfMonth(y - 1, 0)
                    /\ output.prevEndDate = LastOfMonth(y - 1, 11)
               ELSE /\ output.startDate = FirstOfMonth(y, m)
                    /\ output.endDate = LastOfMonth(y, m)
                    /\ output.prevStartDate = FirstOfMonth(py, pm)
                    /\ output.prevEndDate = LastOfMonth(py, pm)

\* Wednesday 3 January 2024: the week starts on Sunday 31 December 2023.
C17_Witness ==
    /\ output.fn = "ranges"
    /\ input.period = Some("week")
    /\ input.today = Day(2024, 0, 3)
    /\ output.startDate = LastOfMonth(2023, 11)
    /\ output.prevStartDate = output.startDate - 7

\* urgent before high before medium before low.
PriorityRank(p) ==
    CASE p = "urgent" -> 0
      [] p = "high" -> 1
      [] p = "medium" -> 2
      [] p = "low" -> 3

\* C18: the goals-by-priority query returns only the owner's active goals,
\* ordered by priority rank (urgent, high, medium, low) and, within equal
\* priority, by target date ascending.
C18_PriorityOrder ==
    output.fn = "byPriority" =>
        LET rows == output.rows
        IN  /\ {rows[n].id : n \in DOMAIN rows}
                 = {i \in DOMAIN input.docs : /\ input.docs[i].user = input.userId
                                              /\ input.docs[i].status = "active"}
            /\ \A n \in DOMAIN rows : rows[n].goal = input.docs[rows[n].id]
            /\ \A n, m \in DOMAIN rows : n < m =>
                  \/ PriorityRank(rows[n].goal.priority) < PriorityRank(rows[m].goal.priority)
                  \/ /\ rows[n].goal.priority = rows[m].goal.priority
                     /\ rows[n].goal.targetDate <= rows[m].goal.targetDate

Percentages == << 25, 50, 75, 100 >>

\* The four milestones ms stand at 25%, 50%, 75% and 100% of target.
QuarterMilestones(ms, target) ==
    /\ Len(ms) = 4
    /\ \A i \in 1..4 : /\ ms[i].percentage = Percentages[i]
                       /\ ms[i].amount * 100 = Percentages[i] * target

\* C19: after a successful edit of the target amount to T > 0 the goal has
\* exactly four milestones, at 25%, 50%, 75% and 100% of T in that order.
C19_MilestonesAfterEdit ==
    [][\A u \in Users, id \in GoalIds, body \in UpdateBodies :
          ( /\ Has(body.targetAmount)
            /\ Update(u, id, body)
            /\ res'.code = 200 )
          => /\ Val(body.targetAmount) > 0
             /\ goals'[id].targetAmount = Val(body.targetAmount)
             /\ QuarterMilestones(goals'[id].milestones, Val(body.targetAmount))]_vars

\* A goal completed at its target 4 whose target was then edited to 8: the
\* thresholds are 2, 4, 6 and 8.
C19_Witness ==
    /\ res.message = "Goal updated successfully!"
    /\ \E id \in DOMAIN goals :
          /\ goals[id].targetAmount = 8
          /\ goals[id].currentAmount = 4
          /\ goals[id].milestones[1].amount = 2
          /\ goals[id].milestones[4].amount = 8

\* C20: a newly created goal is active, has currentAmount 0, no
\* contributions and no completion timestamp, and exactly four milestones at
\* 25%, 50%, 75% and 100% of its target amount, none of them achieved.
C20_NewGoal ==
    [][\A id \in GoalIds : id \notin DOMAIN goals =>
          \A u \in Users, body \in CreateBodies :
             (Create(u, id, body) /\ res'.code = 201)
             => /\ id \in DOMAIN goals'
                /\ goals'[id].user = u
                /\ goals'[id].targetAmount = Val(body.targetAmount)
                /\ goals'[id].status = "active"
                /\ goals'[id].currentAmount = 0
                /\ goals'[id].contributions = << >>
                /\ goals'[id].completedAt = None
                /\ QuarterMilestones(goals'[id].milestones, goals'[id].targetAmount)
                /\ \A i \in DOMAIN goals'[id].milestones :
                      /\ ~goals'[id].milestones[i].isAchieved
                      /\ goals'[id].milestones[i].achievedDate = None]_vars

\* A goal with target 8 has just been created.
C20_Witness ==
    /\ res.code = 201
    /\ res.message = "Goal created successfully!"
    /\ \E id \in DOMAIN goals :
          /\ goals[id].targetAmount = 8
          /\ goals[id].status = "active"
          /\ Len(goals[id].milestones) = 4

\* Two quotients are the same number.
SameRatio(a, b) == a.num * b.den = b.num * a.den

PointsOf(cap) ==
    LET fs == output.scoreFactors
        at == {i \in DOMAIN fs : FactorCap(fs[i].factor) = cap}
    IN  IF at = {} THEN -1 ELSE fs[CHOOSE i \in at : TRUE].points

\* The positions of the input's goals of one status.
GoalsOfStatus(st) == {i \in DOMAIN input.goals : input.goals[i].status = st}

\* progress >= k, for progress = active total current / total target * 100,
\* 0 without an active goal.
ProgressAtLeast(k) ==
    LET act == GoalsOfStatus("active")
        cur == SumOver(act, [i \in DOMAIN input.goals |-> input.goals[i].currentAmount])
        tgt == SumOver(act, [i \in DOMAIN input.goals |-> input.goals[i].targetAmount])
    IN  IF act = {} THEN 0 >= k ELSE cur * 100 >= k * tgt

\* C22: the goal-progress factor is 20 with a completed goal and progress >=
\* 50, otherwise 15 with progress >= 25, otherwise 10 with any active goal,
\* otherwise 0.
C22_GoalFactor ==
    output.fn = "health" =>
        PointsOf(20) = (IF GoalsOfStatus("completed") # {} /\ ProgressAtLeast(50) THEN 20
                        ELSE IF ProgressAtLeast(25) THEN 15
                        ELSE IF GoalsOfStatus("active") # {} THEN 10
                        ELSE 0)

\* Progress of at least 50 without a completed goal: 15 points, not 20.
C22_Witness ==
    /\ output.fn = "health"
    /\ GoalsOfStatus("completed") = {}
    /\ ProgressAtLeast(50)
    /\ PointsOf(20) = 15

\* The positions of the input's emergency-fund goals, of any status.
EmergencyFunds == {i \in DOMAIN input.goals : input.goals[i].category = "emergency-fund"}

StartFundAdvice == "Start building an emergency fund for unexpected expenses"

Advised(text) == \E i \in DOMAIN output.recommendations : output.recommendations[i] = text

\* C23: the emergency-fund factor is 10 when the user has an emergency-fund
\* goal at 50% of its target or more, 5 when the user has such a goal below
\* 50%, and 0 only when the user has no emergency-fund goal; the advice to
\* start an emergency fund is given only to a user with no emergency-fund
\* goal.
C23_EmergencyFund ==
    output.fn = "health" =>
        /\ PointsOf(10) \in {0, 5, 10}
        /\ PointsOf(10) = 0 => EmergencyFunds = {}
        /\ Advised(StartFundAdvice) => EmergencyFunds = {}

\* C23, for the goals the handler looks at: among the active goals, the
\* first emergency-fund goal decides the factor, and without one the
\* factor is 0 and the advice is given.
C23_ActiveEmergencyFund ==
    output.fn = "health" =>
        LET act == {i \in EmergencyFunds : input.goals[i].status = "active"}
            first == CHOOSE i \in act : \A j \in act : i <= j
        IN  /\ act = {} => PointsOf(10) = 0 /\ Advised(StartFundAdvice)
            /\ act # {} =>
                   /\ ~Advised(StartFundAdvice)
                   /\ PointsOf(10) = IF 2 * input.goals[first].currentAmount
                                          >= input.goals[first].targetAmount
                                     THEN 10 ELSE 5

\* A user whose only emergency-fund goal is not active scores 0 and is told
\* to start one.
C23_Reached ==
    /\ output.fn = "health"
    /\ EmergencyFunds # {}
    /\ PointsOf(10) = 0
    /\ Advised(StartFundAdvice)

\* The positions of the months of the window that hold expense data.
MonthsWithData == {i \in DOMAIN input.months : Has(input.months[i])}

\* The coefficient of variation of the per-month totals is at most k percent:
\* with n months, total T and sum of squares Q, the variance is
\* Q / n - (T / n)^2 and the mean T / n, so (stddev / mean * 100)^2 <= k^2 is
\* 10000 * (n * Q - T^2) <= k^2 * T^2.
VariationAtMost(k) ==
    LET n == Cardinality(MonthsWithData)
        T == SumOver(MonthsWithData, [i \in DOMAIN input.months |->
                         IF Has(input.months[i]) THEN Val(input.months[i]) ELSE 0])
        Q == SumOver(MonthsWithData, [i \in DOMAIN input.months |->
                         IF Has(input.months[i])
                         THEN Val(input.months[i]) * Val(input.months[i]) ELSE 0])
    IN  10000 * (n * Q - T * T) <= k * k * T * T

\* C24: with at least two months of expense data the consistency factor is
\* 15 for a coefficient of variation of at most 20%, 10 for at most 40% and
\* 5 otherwise; with fewer than two months no consistency factor is
\* reported and the score is the sum of the other four factors.
C24_ConsistencyFactor ==
    output.fn = "health" =>
        IF Cardinality(MonthsWithData) >= 2
        THEN PointsOf(15) = (IF VariationAtMost(20) THEN 15
                             ELSE IF VariationAtMost(40) THEN 10 ELSE 5)
        ELSE /\ PointsOf(15) = -1
             /\ output.healthScore = PointsOf(30) + PointsOf(25) + PointsOf(20) + PointsOf(10)

\* One month of data: four factors are reported, none for consistency.
C24_Witness ==
    /\ output.fn = "health"
    /\ Cardinality(MonthsWithData) = 1
    /\ PointsOf(15) = -1
    /\ Len(output.scoreFactors) = 4

\* Two months or more in the middle tier.
C24_MiddleTier ==
    /\ output.fn = "health"
    /\ PointsOf(15) = 10

\* The first day of the calendar month n months before the month of date.
FirstDayMonthsBefore(date, n) ==
    Day((MonthNumber(date) - n) \div 12, (MonthNumber(date) - n) % 12, 1)

\* C25: for every reference date and every N >= 1 the trend window starts on
\* the first day of the calendar month N months before the reference date's
\* month.
C25_TrendStart ==
    output.fn = "patterns" =>
        output.startDate = FirstDayMonthsBefore(input.today, input.months)

\* C25, for the reference dates whose day of the month exists in the month N
\* months back (every date up to the 28th): the window starts as claimed.
C25_TrendStartEarlyDays ==
    (output.fn = "patterns"
        /\ input.today.day
              <= DaysIn(FirstDayMonthsBefore(input.today, input.months).month,
                        Leap(FirstDayMonthsBefore(input.today, input.months).year))) =>
        output.startDate = FirstDayMonthsBefore(input.today, input.months)

\* On 31 March with N = 1 the window starts on 1 March, not on 1 February.
C25_Reached ==
    /\ output.fn = "patterns"
    /\ input.today = Day(2024, 2, 31)
    /\ input.months = 1
    /\ output.startDate = Day(2024, 2, 1)

\* C26: in every stored state reached by creating, contributing, auto-saving
\* and updating, a goal with status active has currentAmount strictly below
\* targetAmount.
C26_ActiveBelowTarget ==
    \A id \in DOMAIN goals :
        goals[id].status = "active" => goals[id].currentAmount < goals[id].targetAmount

\* An accepted update left a goal at or above its target, stored as
\* completed.
C26_Witness ==
    /\ res.message = "Goal updated successfully!"
    /\ \E id \in DOMAIN goals :
          /\ goals[id].currentAmount >= goals[id].targetAmount
          /\ goals[id].status = "completed"

\* The auto-save contributions of a stored goal.
AutoSaved(doc) == SelectSeq(doc.contributions, LAMBDA c : c.source = "auto-save")

\* C27: when no request is in flight, a stored goal that holds an auto-save
\* contribution also holds the lastAutoSave stamp of an auto-save run: the
\* contribution is never stored while lastAutoSave keeps its previous value.
C27_ContributionWithStamp ==
    (\A h \in Slots : Free(h)) =>
        \A id \in DOMAIN goals :
            AutoSaved(goals[id]) # << >> => Has(goals[id].autoSave.lastAutoSave)

\* An auto-save run answered 500 after its contribution was stored: the goal
\* keeps the contribution and was never stamped.
C27_Reached ==
    /\ \A h \in Slots : Free(h)
    /\ \E h \in Slots : reqs[h].op = "auto-save" /\ reqs[h].code = 500
    /\ \E id \in DOMAIN goals :
          /\ Len(AutoSaved(goals[id])) = 1
          /\ ~Has(goals[id].autoSave.lastAutoSave)

\* C28: of concurrent auto-save requests for one goal, at most one adds a
\* contribution per due period: with a daily frequency and a goal never
\* auto-saved at time 0, the stored goal holds at most one auto-save
\* contribution for each day begun.
C28_OnePerPeriod ==
    \A id \in DOMAIN goals :
        goals[id].autoSave.frequency = "daily" => Len(AutoSaved(goals[id])) <= now + 1

\* Both requests answered 200 within the first period and both contributions
\* are stored.
C28_Reached ==
    /\ now = 0
    /\ \A h \in Slots : reqs[h].op = "auto-save" /\ reqs[h].pc = "done" /\ reqs[h].code = 200
    /\ \E id \in DOMAIN goals : Len(AutoSaved(goals[id])) = 2

\* C29: with the ledger and the budget fixed, the health score after an
\* accepted contribution is at least the score before it, also when the
\* contribution completes the goal.
C29_ScoreNotLowered ==
    (output.fn = "score" /\ output.phase = "after") => output.after >= output.before

\* C29, for a contribution that leaves the goal active: the score is not
\* lowered.
C29_ScoreKeptWhileActive ==
    (output.fn = "score" /\ output.phase = "after" /\ ~output.completes) =>
        output.after >= output.before

\* A contribution completed the user's only goal, an emergency-fund goal,
\* and the score fell by 20.
C29_Reached ==
    /\ output.fn = "score"
    /\ output.phase = "after"
    /\ output.completes
    /\ Len(input.goals) = 1
    /\ input.goals[1].category = "emergency-fund"
    /\ output.after = output.before - 20

\* C30: on every calendar date the budget analysis takes daysInMonth as the
\* true number of days of the date's month (the day of the month of the
\* window's last day), and daysRemaining = daysInMonth - today is never
\* negative.
C30_MonthWindow ==
    output.fn = "budget" =>
        /\ output.daysInMonth = DaysIn(input.month, input.leap)
        /\ output.daysRemaining = output.daysInMonth - input.day
        /\ output.daysRemaining >= 0

\* C30, for the dates up to the 28th: the month's length and the days
\* remaining are as claimed.
C30_MonthWindowEarlyDays ==
    (output.fn = "budget" /\ input.day <= 28) =>
        /\ output.daysInMonth = DaysIn(input.month, input.leap)
        /\ output.daysRemaining = output.daysInMonth - input.day
        /\ output.daysRemaining >= 0

\* On 31 January of a common year the analysis counts 28 days in the month
\* and -3 days remaining.
C30_Reached ==
    /\ output.fn = "budget"
    /\ input.month = 0
    /\ input.day = 31
    /\ ~input.leap
    /\ output.daysInMonth = 28
    /\ output.daysRemaining = -3

====
